---------------------------- MODULE Spec2Model ----------------------------
(***************************************************************************)
(* Model of the iSYS-4001 radar driver (src/iSYS4001.cpp): command frame   *)
(* encoding, the 8-bit frame checksum, the bounded-time response           *)
(* collectors, frame validation and the target-list decoder.               *)
(*                                                                         *)
(* Bytes are naturals 0..255, frames are sequences of bytes.  C arrays are *)
(* 0-based; At(a, i) reads a[i].                                           *)
(***************************************************************************)
EXTENDS Integers, Sequences, FiniteSets

VARIABLES
    pc,         \* position of the call: "idle" | "collect" | "hdr" | "body" | "done"
                \* ("decode": decodeTargetFrame called on its own; "off": no call)
    op,         \* the call: [name, dest, out, val, timeout]
    tx,         \* frames written to the transport by the call, in order
    rx,         \* bytes queued in the transport's receive side, not yet read
    wire,       \* bytes of the device's answer withheld until after the call
    buf,        \* response bytes stored by the collector, in order
    now,        \* millis(), a 32-bit counter kept as [hi, lo]
    startTime,  \* millis() sampled when the collector starts
    result,     \* iSYSResult_t returned by the call ("none" before it returns)
    outv,       \* the caller's output variable of a getter (*range, *velocity, ...)
    tlist,      \* the caller's iSYSTargetList_t
    rdMax,      \* highest frame index decodeTargetFrame has read (-1: none)
    answer,     \* what the device has put on the line for this call ("none" before it does)
    fData, fStart, fEnd, fI, fAcc, fPc, fIter,  \* one run of calculateFCS, statement by statement
    debugEnabled,   \* _debugEnabled && _debugStream: debugPrintHexFrame prints
    serialOut,      \* frames dumped on Serial by Serial.print, so far
    debugOut        \* frames dumped on the debug stream by debugPrintHexFrame, so far

vars == <<pc, op, tx, rx, wire, buf, now, startTime, result, outv, tlist, rdMax, answer,
          fData, fStart, fEnd, fI, fAcc, fPc, fIter, debugEnabled, serialOut, debugOut>>

callVars == <<pc, op, tx, rx, wire, buf, now, startTime, result, outv, tlist, rdMax, answer>>
fcsVars == <<fData, fStart, fEnd, fI, fAcc, fPc, fIter>>
dbgVars == <<debugEnabled, serialOut, debugOut>>

-----------------------------------------------------------------------------
(* Protocol constants                                                      *)

SD2 == 104              \* 0x68 start delimiter
END_BYTE == 22          \* 0x16 end delimiter
MASTER_ADDR == 1        \* 0x01 source address of every command
MAX_TARGETS == 35       \* 0x23
CLIPPING == 255         \* 0xFF target count meaning "clipping"
FC_TARGET_LIST == 218   \* 0xDA
FC_READ == 212          \* 0xD4
FC_WRITE == 213         \* 0xD5
FC_ACQUISITION == 209   \* 0xD1
FC_EEPROM == 223        \* 0xDF
FC_GET_ADDRESS == 210   \* 0xD2
FC_SET_ADDRESS == 211   \* 0xD3
ACK_LEN == 9            \* uint8_t response[9]
READ_LEN == 11          \* uint8_t response[11]
ADDR_BUF_LEN == 32      \* uint8_t buffer[32]
HALF == 65536           \* 2^16: a uint32_t is kept as two 16-bit halves [hi, lo]

-----------------------------------------------------------------------------
(* Bounds of the model                                                     *)

MaxTimeout == 2         \* the largest timeout (ms) a call is given
MaxIter == 260          \* calculateFCS iterations followed before the run is cut

-----------------------------------------------------------------------------
(* Bytes and arrays                                                        *)

At(a, i) == a[i + 1]

Max2(a, b) == IF a >= b THEN a ELSE b

RECURSIVE SumRange(_, _, _)
\* Mathematical sum of a[lo..hi] (0-based, inclusive); 0 when lo > hi.
SumRange(a, lo, hi) ==
    IF lo > hi THEN 0
    ELSE IF lo = hi THEN At(a, lo)
    ELSE LET mid == (lo + hi) \div 2
         IN  SumRange(a, lo, mid) + SumRange(a, mid + 1, hi)

-----------------------------------------------------------------------------
(* calculateFCS: for (uint8_t i = startIndex; i <= endIndex; i++)          *)
(*                   fcs = (uint8_t)(fcs + data[i]);                       *)

FCSCond(i, endIndex) == i <= endIndex

FCSBody(data, i, fcs) == (fcs + At(data, i)) % 256

FCSIncr(i) == (i + 1) % 256         \* uint8_t i++

RECURSIVE FCSLoop(_, _, _, _)
FCSLoop(data, i, endIndex, fcs) ==
    IF FCSCond(i, endIndex)
    THEN FCSLoop(data, FCSIncr(i), endIndex, FCSBody(data, i, fcs))
    ELSE fcs

calculateFCS(data, startIndex, endIndex) == FCSLoop(data, startIndex, endIndex, 0)

-----------------------------------------------------------------------------
(* One run of calculateFCS, one loop iteration per step                    *)

FcsLens == {1, 3, 11, 256}                 \* buffer lengths tried
FcsSeeds == {0, 201}                       \* first byte of a buffer
FcsIndexSamples == {0, 1, 2, 10, 254, 255} \* uint8_t start and end indices tried

FcsBuffer(n, seed) == [j \in 1..n |-> (seed + 3 * (j - 1)) % 256]

\* iSYS4001::iSYS4001: _debugEnabled(false), _debugStream(nullptr); nothing printed yet
DebugOff == debugEnabled = FALSE /\ serialOut = 0 /\ debugOut = 0

FcsOff ==
    /\ fData = <<>> /\ fStart = 0 /\ fEnd = 0 /\ fI = 0 /\ fAcc = 0
    /\ fPc = "off" /\ fIter = 0

CallOff ==
    /\ pc = "off" /\ op = [name |-> "none"] /\ tx = <<>> /\ rx = <<>> /\ wire = <<>>
    /\ buf = <<>> /\ result = "none" /\ outv = <<0, 1>>
    /\ now = [hi |-> 0, lo |-> 0] /\ startTime = [hi |-> 0, lo |-> 0]
    /\ tlist = <<>> /\ rdMax = -1 /\ answer = "none"
    /\ DebugOff

InitFCS ==
    /\ CallOff
    /\ \E n \in FcsLens, seed \in FcsSeeds : fData = FcsBuffer(n, seed)
    /\ fStart \in FcsIndexSamples
    /\ fEnd \in FcsIndexSamples
    /\ fStart <= fEnd
    /\ fEnd < Len(fData)
    /\ fI = fStart          \* uint8_t i = startIndex
    /\ fAcc = 0             \* uint8_t fcs = 0
    /\ fPc = "loop"
    /\ fIter = 0

FcsStep ==
    /\ fPc = "loop"
    /\ FCSCond(fI, fEnd)
    /\ fIter < MaxIter
    /\ fAcc' = FCSBody(fData, fI, fAcc)
    /\ fI' = FCSIncr(fI)
    /\ fIter' = fIter + 1
    /\ UNCHANGED <<fData, fStart, fEnd, fPc>>
    /\ UNCHANGED callVars
    /\ UNCHANGED dbgVars

FcsReturn ==
    /\ fPc = "loop"
    /\ ~FCSCond(fI, fEnd)
    /\ fPc' = "done"
    /\ UNCHANGED <<fData, fStart, fEnd, fI, fAcc, fIter>>
    /\ UNCHANGED callVars
    /\ UNCHANGED dbgVars

NextFCS == FcsStep \/ FcsReturn

SpecFCS == InitFCS /\ [][NextFCS]_vars

-----------------------------------------------------------------------------
(* Command frames, as each sender builds them                              *)

\* iSYSOutputNumber_t / enum value stored into a uint8_t command byte
U8(x) == x % 256

HiByte(x) == (x \div 256) % 256     \* (x >> 8) & 0xFF
LoByte(x) == x % 256                \* x & 0xFF

sendTargetListRequest(outputnumber, destAddress, bitrate) ==
    LET command == <<SD2, 5, 5, SD2, destAddress, MASTER_ADDR, FC_TARGET_LIST,
                     U8(outputnumber), IF bitrate = 32 THEN 32 ELSE 16>>
        fcs == calculateFCS(command, 4, Len(command) - 1)
    IN  command \o <<fcs, END_BYTE>>

\* The 13-byte write-parameter frame of the threshold, direction and filter setters.
WriteParamFrame(destAddress, outputnumber, sub, valHi, valLo) ==
    LET command == <<SD2, 7, 7, SD2, destAddress, MASTER_ADDR, FC_WRITE,
                     U8(outputnumber), sub, valHi, valLo>>
        fcs == calculateFCS(command, 4, 10)
    IN  command \o <<fcs, END_BYTE>>

\* A read-parameter frame with the output number and the subfunction swapped
\* (sensitivity of C27).
Mut_ReadParamFrame(destAddress, outputnumber, sub) ==
    LET command == <<SD2, 5, 5, SD2, destAddress, MASTER_ADDR, FC_READ,
                     sub, U8(outputnumber)>>
        fcs == calculateFCS(command, 4, 8)
    IN  command \o <<fcs, END_BYTE>>

\* The 11-byte read-parameter frame of the threshold, direction and filter getters.
ReadParamFrame(destAddress, outputnumber, sub) ==
    LET command == <<SD2, 5, 5, SD2, destAddress, MASTER_ADDR, FC_READ,
                     U8(outputnumber), sub>>
        fcs == calculateFCS(command, 4, 8)
    IN  command \o <<fcs, END_BYTE>>

\* A sender that declares one PDU byte too many (sensitivity of C2).
Mut_sendEEPROMCommandFrame(subFunction, destAddress) ==
    LET command == <<SD2, 5, 5, SD2, destAddress, MASTER_ADDR, FC_EEPROM, U8(subFunction)>>
        fcs == calculateFCS(command, 4, 7)
    IN  command \o <<fcs, END_BYTE>>

sendEEPROMCommandFrame(subFunction, destAddress) ==
    LET command == <<SD2, 4, 4, SD2, destAddress, MASTER_ADDR, FC_EEPROM, U8(subFunction)>>
        fcs == calculateFCS(command, 4, 7)
    IN  command \o <<fcs, END_BYTE>>

SetAddressFrame(deviceaddress, destAddress) ==
    LET command == <<SD2, 7, 7, SD2, destAddress, MASTER_ADDR, FC_SET_ADDRESS,
                     0, 1, 0, deviceaddress>>
        fcs == calculateFCS(command, 4, 10)
    IN  command \o <<fcs, END_BYTE>>

\* iSYS_getDeviceAddress writes 0x00 as the destination byte, whatever destAddress is.
GetAddressFrame(destAddress) ==
    LET command == <<SD2, 5, 5, SD2, 0, MASTER_ADDR, FC_GET_ADDRESS, 0, 1>>
        fcs == calculateFCS(command, 4, 8)
    IN  command \o <<fcs, END_BYTE>>

sendAcquisitionCommand(destAddress, start) ==
    LET command == <<SD2, 5, 5, SD2, destAddress, MASTER_ADDR, FC_ACQUISITION,
                     0, IF start THEN 0 ELSE 1>>
        fcs == calculateFCS(command, 4, 8)
    IN  command \o <<fcs, END_BYTE>>

\* uint16_t scaledRange = range * 10;  uint16_t scaledSignal = signal * 10
ScaleTimes10(v) == (v * 10) % 65536

\* A conversion that truncates instead of rounding (sensitivity of C36).
Mut_ScaleVelocity(v) == ((25 * v) \div 9) % 65536

\* (uint16_t)round((velocity / 3.6f) * 10.0f): the integer nearest to 25 v / 9
\* (25 v / 9 is never half-way between two integers)
ScaleVelocity(v) == ((50 * v + 9) \div 18) % 65536

-----------------------------------------------------------------------------
(* The public operations: what each checks, sends and expects              *)

Row(fam, func, sub, chkOut, chkVal, lo, hi, scale, chkTimeout, coll, need, b7zero, early) ==
    [fam |-> fam, func |-> func, sub |-> sub, chkOut |-> chkOut, chkVal |-> chkVal,
     lo |-> lo, hi |-> hi, scale |-> scale, chkTimeout |-> chkTimeout, coll |-> coll,
     need |-> need, b7zero |-> b7zero, early |-> early]

OpNames ==
    {"getTargetList16", "getTargetList32",
     "iSYS_setOutputRangeMin", "iSYS_setOutputRangeMax",
     "iSYS_getOutputRangeMin", "iSYS_getOutputRangeMax",
     "iSYS_setOutputVelocityMin", "iSYS_setOutputVelocityMax",
     "iSYS_getOutputVelocityMin", "iSYS_getOutputVelocityMax",
     "iSYS_setOutputSignalMin", "iSYS_setOutputSignalMax",
     "iSYS_getOutputSignalMin", "iSYS_getOutputSignalMax",
     "iSYS_setOutputDirection", "iSYS_getOutputDirection",
     "sendEEPROMCommand",
     "iSYS_setDeviceAddress", "iSYS_getDeviceAddress",
     "iSYS_startAcquisition", "iSYS_stopAcquisition",
     "iSYS_setOutputFilterType", "iSYS_getOutputFilterType",
     "iSYS_setOutputSignalFilter", "iSYS_getOutputSignalFilter"}

\* fam: "tl" target list, "set"/"get" write/read parameter, "eeprom", "acq",
\*      "aset"/"aget" device address.
\* sub: subfunction code (bitrate for "tl").
\* chkOut, chkVal [lo..hi], chkTimeout: the argument checks made, and whether the
\*      timeout == 0 check comes before ("pre") or after ("post") the frame is written.
\* coll: collector loop: "tl" two-phase, "brk" stop at 0x16 or at `need` bytes,
\*      "term" stop at 0x16 once `need` bytes are in, "addr" the same with a 32-byte buffer.
\* b7zero: the getter requires response[7] == 0x00; early: it stores the value before
\*      the checksum test.
OpInfo(name) ==
    CASE name = "getTargetList16" ->
            Row("tl", FC_TARGET_LIST, 16, FALSE, FALSE, 0, 0, "none", "none", "tl", 0, FALSE, FALSE)
      [] name = "getTargetList32" ->
            Row("tl", FC_TARGET_LIST, 32, FALSE, FALSE, 0, 0, "none", "none", "tl", 0, FALSE, FALSE)
      [] name = "iSYS_setOutputRangeMin" ->
            Row("set", FC_WRITE, 8, TRUE, TRUE, 0, 149, "x10", "pre", "brk", ACK_LEN, FALSE, FALSE)
      [] name = "iSYS_setOutputRangeMax" ->
            Row("set", FC_WRITE, 9, TRUE, TRUE, 1, 150, "x10", "pre", "brk", ACK_LEN, FALSE, FALSE)
      [] name = "iSYS_getOutputRangeMin" ->
            Row("get", FC_READ, 8, TRUE, FALSE, 0, 0, "x10", "pre", "brk", READ_LEN, FALSE, FALSE)
      [] name = "iSYS_getOutputRangeMax" ->
            Row("get", FC_READ, 9, TRUE, FALSE, 0, 0, "x10", "pre", "brk", READ_LEN, FALSE, FALSE)
      [] name = "iSYS_setOutputVelocityMin" ->
            Row("set", FC_WRITE, 12, TRUE, TRUE, 0, 249, "vel", "pre", "brk", ACK_LEN, FALSE, FALSE)
      [] name = "iSYS_setOutputVelocityMax" ->
            Row("set", FC_WRITE, 13, TRUE, TRUE, 1, 250, "vel", "pre", "brk", ACK_LEN, FALSE, FALSE)
      [] name = "iSYS_getOutputVelocityMin" ->
            Row("get", FC_READ, 12, FALSE, FALSE, 0, 0, "vel", "none", "brk", READ_LEN, FALSE, FALSE)
      [] name = "iSYS_getOutputVelocityMax" ->
            Row("get", FC_READ, 13, FALSE, FALSE, 0, 0, "vel", "none", "brk", READ_LEN, FALSE, FALSE)
      [] name = "iSYS_setOutputSignalMin" ->
            Row("set", FC_WRITE, 10, TRUE, TRUE, 0, 249, "x10", "pre", "brk", ACK_LEN, FALSE, FALSE)
      [] name = "iSYS_setOutputSignalMax" ->
            Row("set", FC_WRITE, 11, TRUE, TRUE, 1, 250, "x10", "pre", "brk", ACK_LEN, FALSE, FALSE)
      [] name = "iSYS_getOutputSignalMin" ->
            Row("get", FC_READ, 10, FALSE, FALSE, 0, 0, "x10", "none", "brk", READ_LEN, FALSE, FALSE)
      [] name = "iSYS_getOutputSignalMax" ->
            Row("get", FC_READ, 11, FALSE, FALSE, 0, 0, "x10", "none", "brk", READ_LEN, FALSE, FALSE)
      [] name = "iSYS_setOutputDirection" ->
            Row("set", FC_WRITE, 14, TRUE, FALSE, 0, 0, "raw", "pre", "brk", ACK_LEN, FALSE, FALSE)
      [] name = "iSYS_getOutputDirection" ->
            Row("get", FC_READ, 14, FALSE, FALSE, 0, 0, "raw", "none", "brk", READ_LEN, TRUE, TRUE)
      [] name = "sendEEPROMCommand" ->
            Row("eeprom", FC_EEPROM, 0, FALSE, FALSE, 0, 0, "raw", "none", "brk", ACK_LEN, FALSE, FALSE)
      [] name = "iSYS_setDeviceAddress" ->
            Row("aset", FC_SET_ADDRESS, 0, FALSE, FALSE, 0, 0, "raw", "none", "addr", ACK_LEN, FALSE, FALSE)
      [] name = "iSYS_getDeviceAddress" ->
            Row("aget", FC_GET_ADDRESS, 0, FALSE, FALSE, 0, 0, "raw", "none", "addr", READ_LEN, FALSE, FALSE)
      [] name = "iSYS_startAcquisition" ->
            Row("acq", FC_ACQUISITION, 0, FALSE, FALSE, 0, 0, "none", "post", "term", ACK_LEN, FALSE, FALSE)
      [] name = "iSYS_stopAcquisition" ->
            Row("acq", FC_ACQUISITION, 1, FALSE, FALSE, 0, 0, "none", "post", "term", ACK_LEN, FALSE, FALSE)
      [] name = "iSYS_setOutputFilterType" ->
            Row("set", FC_WRITE, 21, FALSE, FALSE, 0, 0, "raw", "post", "term", ACK_LEN, FALSE, FALSE)
      [] name = "iSYS_getOutputFilterType" ->
            Row("get", FC_READ, 21, FALSE, FALSE, 0, 0, "raw", "post", "term", READ_LEN, TRUE, FALSE)
      [] name = "iSYS_setOutputSignalFilter" ->
            Row("set", FC_WRITE, 22, FALSE, FALSE, 0, 0, "raw", "post", "term", ACK_LEN, FALSE, FALSE)
      [] name = "iSYS_getOutputSignalFilter" ->
            Row("get", FC_READ, 22, FALSE, FALSE, 0, 0, "raw", "post", "term", READ_LEN, TRUE, FALSE)

\* The value a setter puts into the two value bytes.
ScaledValue(info, val) ==
    CASE info.scale = "x10" -> ScaleTimes10(val)
      [] info.scale = "vel" -> ScaleVelocity(val)
      [] OTHER -> U8(val)         \* command[9] = 0x00; command[10] = (uint8_t)value

\* The frame the operation writes.
Command(name, a) ==
    LET info == OpInfo(name)
    IN  CASE info.fam = "tl" -> sendTargetListRequest(a.out, a.dest, info.sub)
          [] info.fam = "set" ->
                WriteParamFrame(a.dest, a.out, info.sub,
                                HiByte(ScaledValue(info, a.val)), LoByte(ScaledValue(info, a.val)))
          [] info.fam = "get" -> ReadParamFrame(a.dest, a.out, info.sub)
          [] info.fam = "eeprom" -> sendEEPROMCommandFrame(a.val, a.dest)
          [] info.fam = "aset" -> SetAddressFrame(a.val, a.dest)
          [] info.fam = "aget" -> GetAddressFrame(a.dest)
          [] info.fam = "acq" -> sendAcquisitionCommand(a.dest, info.sub = 0)

\* The argument checks made before anything is written; "ERR_OK" when all pass.
PreCheck(name, a) ==
    LET info == OpInfo(name)
    IN  IF info.chkOut /\ (a.out < 1 \/ a.out > 3) THEN "ERR_OUTPUT_OUT_OF_RANGE"
        ELSE IF info.chkVal /\ (a.val < info.lo \/ a.val > info.hi) THEN "ERR_PARAMETER_OUT_OF_RANGE"
        ELSE IF info.chkTimeout = "pre" /\ a.timeout = 0 THEN "ERR_TIMEOUT"
        ELSE "ERR_OK"

-----------------------------------------------------------------------------
(* Validation of the fixed-length responses                                *)

\* The value a caller's output variable holds, as a fraction <<numerator, denominator>>.
Scaled(raw, den) == IF raw = 0 THEN <<0, 1>> ELSE <<raw, den>>

\* response[0..6] and response[8] of a 9-byte acknowledge
AckFixedOk(r, echo, func) ==
    /\ At(r, 0) = SD2 /\ At(r, 1) = 3 /\ At(r, 2) = 3 /\ At(r, 3) = SD2
    /\ At(r, 4) = MASTER_ADDR /\ At(r, 5) = echo
    /\ At(r, 6) = func /\ At(r, 8) = END_BYTE

\* response[0..6] and response[10] of an 11-byte read response
ReadFixedOk(r, echo, func, b7zero) ==
    /\ At(r, 0) = SD2 /\ At(r, 1) = 5 /\ At(r, 2) = 5 /\ At(r, 3) = SD2
    /\ At(r, 4) = MASTER_ADDR /\ At(r, 5) = echo
    /\ At(r, 6) = func
    /\ (b7zero => At(r, 7) = 0)
    /\ At(r, 10) = END_BYTE

\* iSYS_getDeviceAddress tests neither address byte
AddrReadFixedOk(r) ==
    /\ At(r, 0) = SD2 /\ At(r, 1) = 5 /\ At(r, 2) = 5 /\ At(r, 3) = SD2
    /\ At(r, 6) = FC_GET_ADDRESS /\ At(r, 10) = END_BYTE

\* A fixed-byte test that expects the address the request was sent to in the
\* acknowledge of iSYS_setDeviceAddress (sensitivity of C38).
Mut_FixedOk(info, a, r) ==
    CASE info.fam = "aset" -> AckFixedOk(r, a.dest, FC_SET_ADDRESS)
      [] info.fam = "aget" -> AddrReadFixedOk(r)
      [] info.fam = "get" -> ReadFixedOk(r, a.dest, FC_READ, info.b7zero)
      [] OTHER -> AckFixedOk(r, a.dest, info.func)

\* The fixed-byte test of the operation, on a response of at least `need` bytes.
FixedOk(info, a, r) ==
    CASE info.fam = "aset" -> AckFixedOk(r, a.val, FC_SET_ADDRESS)   \* buffer[5] == deviceaddress
      [] info.fam = "aget" -> AddrReadFixedOk(r)
      [] info.fam = "get" -> ReadFixedOk(r, a.dest, FC_READ, info.b7zero)
      [] OTHER -> AckFixedOk(r, a.dest, info.func)

\* A checksum test that accepts every checksum byte (sensitivity of C4).
Mut_ChecksumOk(info, r) == TRUE

\* calculateFCS(response, 4, 6) == response[7], or calculateFCS(response, 4, 8) == response[9]
ChecksumOk(info, r) ==
    IF info.need = ACK_LEN
    THEN At(r, 7) = calculateFCS(r, 4, 6)
    ELSE At(r, 9) = calculateFCS(r, 4, 8)

\* A getter that reads the raw value little-endian (sensitivity of C5).
Mut_GetterValue(info, r) ==
    LET raw == At(r, 8) * 256 + At(r, 7)
    IN  CASE info.fam = "aget" -> <<At(r, 8), 1>>
          [] info.scale = "x10" -> Scaled(raw, 10)
          [] info.scale = "vel" -> Scaled(raw * 36, 100)
          [] OTHER -> <<At(r, 8), 1>>

\* The value a getter stores from an 11-byte response.
GetterValue(info, r) ==
    LET raw == At(r, 7) * 256 + At(r, 8)        \* (response[7] << 8) | response[8]
    IN  CASE info.fam = "aget" -> <<At(r, 8), 1>>              \* *deviceaddress = buffer[8]
          [] info.scale = "x10" -> Scaled(raw, 10)             \* (float)raw / 10.0f
          [] info.scale = "vel" -> Scaled(raw * 36, 100)       \* ((float)raw / 10.0f) * 3.6f
          [] OTHER -> <<At(r, 8), 1>>                          \* (enum)response[8]

IsGetter(info) == info.fam \in {"get", "aget"}

\* After the "brk" collector loop: length, fixed bytes, checksum; [res, out].
BrkFinish(info, a, r, prior) ==
    IF Len(r) = 0 THEN [res |-> "ERR_COMMAND_NO_DATA_RECEIVED", out |-> prior]
    ELSE IF Len(r) < info.need THEN [res |-> "ERR_COMMAND_RX_FRAME_LENGTH", out |-> prior]
    ELSE IF ~FixedOk(info, a, r) THEN [res |-> "ERR_COMMAND_RX_FRAME_DAMAGED", out |-> prior]
    ELSE IF ~ChecksumOk(info, r)
         THEN [res |-> "ERR_INVALID_CHECKSUM",
               out |-> IF info.early THEN GetterValue(info, r) ELSE prior]
    ELSE [res |-> "ERR_OK", out |-> IF IsGetter(info) THEN GetterValue(info, r) ELSE prior]

\* In the "term" collector, when 0x16 arrives with index >= need; [res, out].
TermFinish(info, a, r, prior) ==
    IF Len(r) = info.need /\ FixedOk(info, a, r)
    THEN IF ChecksumOk(info, r)
         THEN [res |-> "ERR_OK", out |-> IF IsGetter(info) THEN GetterValue(info, r) ELSE prior]
         ELSE [res |-> "ERR_INVALID_CHECKSUM", out |-> prior]
    ELSE [res |-> "ERR_COMMAND_RX_FRAME_DAMAGED", out |-> prior]

\* In the "addr" collector, when 0x16 arrives with count >= need; [res, out].
AddrFinish(info, a, r, prior) ==
    IF Len(r) = info.need /\ FixedOk(info, a, r)
    THEN IF ChecksumOk(info, r)
         THEN [res |-> "ERR_OK", out |-> IF IsGetter(info) THEN GetterValue(info, r) ELSE prior]
         ELSE [res |-> "ERR_COMMAND_RX_FRAME_DAMAGED", out |-> prior]
    ELSE [res |-> "ERR_COMMAND_RX_FRAME_DAMAGED", out |-> prior]

-----------------------------------------------------------------------------
(* The target list and its decoder                                         *)

TARGET_LIST_OK == 0

\* A FULL status indistinguishable from OK (sensitivity of C14).
Mut_TARGET_LIST_FULL == TARGET_LIST_OK

TARGET_LIST_FULL == 1

ZeroTarget == [signal |-> <<0, 1>>, velocity |-> <<0, 1>>, range |-> <<0, 1>>, angle |-> <<0, 1>>]

\* A reset that leaves the output number of the previous call (sensitivity of C12).
Mut_ZeroList ==
    [status |-> 0, outputNumber |-> 3, nrOfTargets |-> 0, clippingFlag |-> 0,
     targets |-> [i \in 1..MAX_TARGETS |-> ZeroTarget]]

\* memset(pTargetList, 0, sizeof(iSYSTargetList_t))
ZeroList ==
    [status |-> 0, outputNumber |-> 0, nrOfTargets |-> 0, clippingFlag |-> 0,
     targets |-> [i \in 1..MAX_TARGETS |-> ZeroTarget]]

\* int16_t tmp = (hi << 8) | lo
S16(hi, lo) == LET u == hi * 256 + lo IN IF u >= 32768 THEN u - 65536 ELSE u

\* int tmp32 = (b0 << 24) | (b1 << 16) | (b2 << 8) | b3
S32(b0, b1, b2, b3) ==
    (IF b0 >= 128 THEN b0 - 256 ELSE b0) * 16777216 + (b1 * 65536 + b2 * 256 + b3)

\* frame_array[i]; a read at or beyond nrOfElements yields whatever byte lies there (g)
Mem(frame, g, i) == IF i < Len(frame) THEN At(frame, i) ELSE g

HeaderLen(bitrate) == IF bitrate = 32 THEN 6 ELSE 9
CountIndex(bitrate) == IF bitrate = 32 THEN 5 ELSE 8
BytesPerTgt(bitrate) == IF bitrate = 32 THEN 14 ELSE 7

\* A 32-bit target whose signal is taken as unsigned (sensitivity of C16).
Mut_Target32(frame, g, base) ==
    [signal   |-> Scaled(Mem(frame, g, base) * 256 + Mem(frame, g, base + 1), 100),
     velocity |-> Scaled(S32(Mem(frame, g, base + 2), Mem(frame, g, base + 3),
                             Mem(frame, g, base + 4), Mem(frame, g, base + 5)), 1000),
     range    |-> Scaled(S32(Mem(frame, g, base + 6), Mem(frame, g, base + 7),
                             Mem(frame, g, base + 8), Mem(frame, g, base + 9)), 1000000),
     angle    |-> Scaled(S32(Mem(frame, g, base + 10), Mem(frame, g, base + 11),
                             Mem(frame, g, base + 12), Mem(frame, g, base + 13)), 100)]

\* A 16-bit target whose velocity is read low byte first (sensitivity of C17).
Mut_Target16(frame, g, base) ==
    [signal   |-> Scaled(Mem(frame, g, base), 1),
     velocity |-> Scaled(S16(Mem(frame, g, base + 2), Mem(frame, g, base + 1)), 100),
     range    |-> Scaled(S16(Mem(frame, g, base + 3), Mem(frame, g, base + 4)), 100),
     angle    |-> Scaled(S16(Mem(frame, g, base + 5), Mem(frame, g, base + 6)), 100)]

\* Target i (0-based) of a 32-bit frame, read through pData = &frame_array[fc + 3]
Target32(frame, g, base) ==
    [signal   |-> Scaled(S16(Mem(frame, g, base), Mem(frame, g, base + 1)), 100),
     velocity |-> Scaled(S32(Mem(frame, g, base + 2), Mem(frame, g, base + 3),
                             Mem(frame, g, base + 4), Mem(frame, g, base + 5)), 1000),
     range    |-> Scaled(S32(Mem(frame, g, base + 6), Mem(frame, g, base + 7),
                             Mem(frame, g, base + 8), Mem(frame, g, base + 9)), 1000000),
     angle    |-> Scaled(S32(Mem(frame, g, base + 10), Mem(frame, g, base + 11),
                             Mem(frame, g, base + 12), Mem(frame, g, base + 13)), 100)]

Target16(frame, g, base) ==
    [signal   |-> Scaled(Mem(frame, g, base), 1),
     velocity |-> Scaled(S16(Mem(frame, g, base + 1), Mem(frame, g, base + 2)), 100),
     range    |-> Scaled(S16(Mem(frame, g, base + 3), Mem(frame, g, base + 4)), 100),
     angle    |-> Scaled(S16(Mem(frame, g, base + 5), Mem(frame, g, base + 6)), 100)]

\* A decoder that tests the count before the end byte (sensitivity of C31).
Mut_decodeEndTestLast(frame, nrOfElements, bitrate, targetList, g) ==
    LET fc == IF Mem(frame, g, 0) = SD2 THEN 6 ELSE 3
        output_number == Mem(frame, g, fc + 1)
        nrOfTargets == Mem(frame, g, fc + 2)
        hdrRd == Max2(fc + 2, nrOfElements - 1)
        bpt == IF bitrate = 32 THEN 14 ELSE IF bitrate = 16 THEN 7 ELSE 0
        decoded ==
            [i \in 1..MAX_TARGETS |->
                IF i <= nrOfTargets /\ bitrate = 32
                    THEN Target32(frame, g, fc + 3 + 14 * (i - 1))
                ELSE IF i <= nrOfTargets /\ bitrate = 16
                    THEN Target16(frame, g, fc + 3 + 7 * (i - 1))
                ELSE ZeroTarget]
        status == IF nrOfTargets = MAX_TARGETS THEN TARGET_LIST_FULL ELSE TARGET_LIST_OK
    IN  IF nrOfTargets > MAX_TARGETS /\ nrOfTargets # CLIPPING
        THEN [res |-> "ERR_COMMAND_FAILURE", list |-> targetList, rd |-> hdrRd]
        ELSE IF Mem(frame, g, nrOfElements - 1) # END_BYTE
        THEN [res |-> "ERR_COMMAND_NO_VALID_FRAME_FOUND", list |-> targetList, rd |-> hdrRd]
        ELSE IF nrOfTargets # CLIPPING
        THEN [res |-> "ERR_OK",
              list |-> [status |-> status, outputNumber |-> output_number,
                        nrOfTargets |-> nrOfTargets, clippingFlag |-> 0,
                        targets |-> decoded],
              rd |-> IF nrOfTargets > 0 /\ bpt > 0
                     THEN Max2(hdrRd, fc + 2 + bpt * nrOfTargets) ELSE hdrRd]
        ELSE [res |-> "ERR_OK",
              list |-> [targetList EXCEPT !.clippingFlag = 1, !.status = status],
              rd |-> hdrRd]

\* A decoder that stores the count 0xFF like any other count (sensitivity of C13).
Mut_decodeTargetFrame(frame, nrOfElements, bitrate, targetList, g) ==
    LET fc == IF Mem(frame, g, 0) = SD2 THEN 6 ELSE 3
        nrOfTargets == Mem(frame, g, fc + 2)
        hdrRd == Max2(fc + 2, nrOfElements - 1)
    IN  IF Mem(frame, g, nrOfElements - 1) # END_BYTE
        THEN [res |-> "ERR_COMMAND_NO_VALID_FRAME_FOUND", list |-> targetList, rd |-> hdrRd]
        ELSE IF nrOfTargets > MAX_TARGETS /\ nrOfTargets # CLIPPING
        THEN [res |-> "ERR_COMMAND_FAILURE", list |-> targetList, rd |-> hdrRd]
        ELSE [res |-> "ERR_OK",
              list |-> [status |-> IF nrOfTargets = MAX_TARGETS THEN TARGET_LIST_FULL
                                   ELSE TARGET_LIST_OK,
                        outputNumber |-> Mem(frame, g, fc + 1),
                        nrOfTargets |-> nrOfTargets,
                        clippingFlag |-> IF nrOfTargets = CLIPPING THEN 1 ELSE 0,
                        targets |-> [i \in 1..MAX_TARGETS |->
                                        IF i <= nrOfTargets /\ bitrate = 32
                                            THEN Target32(frame, g, fc + 3 + 14 * (i - 1))
                                        ELSE IF i <= nrOfTargets /\ bitrate = 16
                                            THEN Target16(frame, g, fc + 3 + 7 * (i - 1))
                                        ELSE ZeroTarget]],
              rd |-> hdrRd]

\* decodeTargetFrame(frame_array, nrOfElements, bitrate, targetList): [res, list, rd],
\* rd the highest index of frame_array that was read.
decodeTargetFrame(frame, nrOfElements, bitrate, targetList, g) ==
    LET fc == IF Mem(frame, g, 0) = SD2 THEN 6 ELSE 3
        output_number == Mem(frame, g, fc + 1)
        nrOfTargets == Mem(frame, g, fc + 2)
        hdrRd == Max2(fc + 2, nrOfElements - 1)
        bpt == IF bitrate = 32 THEN 14 ELSE IF bitrate = 16 THEN 7 ELSE 0
        decoded ==
            [i \in 1..MAX_TARGETS |->
                IF i <= nrOfTargets /\ bitrate = 32
                    THEN Target32(frame, g, fc + 3 + 14 * (i - 1))
                ELSE IF i <= nrOfTargets /\ bitrate = 16
                    THEN Target16(frame, g, fc + 3 + 7 * (i - 1))
                ELSE ZeroTarget]
        status == IF nrOfTargets = MAX_TARGETS THEN TARGET_LIST_FULL ELSE TARGET_LIST_OK
    IN  IF Mem(frame, g, nrOfElements - 1) # END_BYTE
        THEN [res |-> "ERR_COMMAND_NO_VALID_FRAME_FOUND", list |-> targetList, rd |-> hdrRd]
        ELSE IF nrOfTargets > MAX_TARGETS /\ nrOfTargets # CLIPPING
        THEN [res |-> "ERR_COMMAND_FAILURE", list |-> targetList, rd |-> hdrRd]
        ELSE IF nrOfTargets # CLIPPING
        THEN [res |-> "ERR_OK",
              list |-> [status |-> status, outputNumber |-> output_number,
                        nrOfTargets |-> nrOfTargets, clippingFlag |-> 0,
                        targets |-> decoded],
              rd |-> IF nrOfTargets > 0 /\ bpt > 0
                     THEN Max2(hdrRd, fc + 2 + bpt * nrOfTargets) ELSE hdrRd]
        ELSE [res |-> "ERR_OK",
              list |-> [targetList EXCEPT !.clippingFlag = 1, !.status = status],
              rd |-> hdrRd]

-----------------------------------------------------------------------------
(* The millisecond clock: uint32_t arithmetic on [hi, lo] halves            *)

U32(n) == [hi |-> n \div HALF, lo |-> n % HALF]

U32Inc(a) ==
    IF a.lo + 1 < HALF THEN [hi |-> a.hi, lo |-> a.lo + 1]
    ELSE [hi |-> (a.hi + 1) % HALF, lo |-> 0]

\* (a - b) mod 2^32
U32Sub(a, b) ==
    LET lo == a.lo - b.lo
        borrow == IF lo < 0 THEN 1 ELSE 0
        hi == a.hi - b.hi - borrow
    IN  [hi |-> (hi + HALF) % HALF, lo |-> (lo + HALF) % HALF]

\* a < t for a timeout t below 2^31
U32Less(a, t) ==
    \/ a.hi < t \div HALF
    \/ a.hi = t \div HALF /\ a.lo < t % HALF

\* A deadline test written millis() < startTime + timeout (sensitivity of C40).
Mut_InTime(clock, start, timeout) ==
    LET lo == start.lo + (timeout % HALF)
        hi == (start.hi + (timeout \div HALF) + (lo \div HALF)) % HALF
    IN  \/ clock.hi < hi
        \/ clock.hi = hi /\ clock.lo < (lo % HALF)

\* (millis() - startTime) < timeout
InTime(clock, start, timeout) == U32Less(U32Sub(clock, start), timeout)

-----------------------------------------------------------------------------
(* The device side: the byte streams a call may be answered with           *)

\* A frame around the bytes DEST..last PDU byte.
DevFrame(body) ==
    <<SD2, Len(body) % 256, Len(body) % 256, SD2>> \o body
        \o <<SumRange(body, 0, Len(body) - 1) % 256, END_BYTE>>

Payload(n, seed) == [j \in 1..n |-> (seed + 5 * j) % 256]

Tamper(s, i, b) == [s EXCEPT ![i + 1] = b]

Stream(kind, sent, held) == [kind |-> kind, sent |-> sent, held |-> held]

\* Response value bytes <<hi, lo>> a device answers a getter with.
DevValues == {<<1, 44>>, <<0, 0>>, <<0, 22>>, <<255, 255>>}

\* The response the protocol prescribes for the operation.
GoodResponse(name, a, v) ==
    LET info == OpInfo(name)
    IN  CASE info.fam = "get" -> DevFrame(<<MASTER_ADDR, a.dest, FC_READ, v[1], v[2]>>)
          [] info.fam = "aget" -> DevFrame(<<MASTER_ADDR, a.dest, FC_GET_ADDRESS, 0, v[2]>>)
          [] info.fam = "aset" -> DevFrame(<<MASTER_ADDR, U8(a.val), FC_SET_ADDRESS>>)
          [] OTHER -> DevFrame(<<MASTER_ADDR, a.dest, info.func>>)

\* Values of a getter for which a byte-7 test passes.
ValuesFor(info) ==
    IF info.fam = "get" /\ ~info.b7zero THEN DevValues
    ELSE IF IsGetter(info) THEN {<<0, 3>>, <<0, 22>>}
    ELSE {<<0, 0>>}

Truncations(kind, s, cuts) ==
    {Stream(kind, SubSeq(s, 1, k), SubSeq(s, k + 1, Len(s))) : k \in cuts \cap (1..(Len(s) - 1))}

FixedStreams(name, a) ==
    LET info == OpInfo(name)
        base == CHOOSE v \in ValuesFor(info) : v[2] \notin {0, 22}
        g0 == GoodResponse(name, a, base)
        n == Len(g0)
    IN       {Stream("full", GoodResponse(name, a, v), <<>>) : v \in ValuesFor(info)}
        \cup {Stream("tampered", Tamper(g0, i, (At(g0, i) + 1) % 256), <<>>) : i \in 0..(n - 1)}
        \cup {Stream("tampered", Tamper(g0, i, END_BYTE), <<>>) : i \in 0..(n - 2)}
        \cup Truncations("truncated", g0, 1..(n - 1))
        \cup {Stream("extended", g0 \o <<0>>, <<>>),
              Stream("extended", Tamper(g0, n - 1, 0) \o <<END_BYTE>>, <<>>),
              Stream("extended", Tamper(g0, n - 1, 0) \o <<0, END_BYTE>>, <<>>),
              Stream("junk", <<0>> \o g0, <<>>)}
        \cup (IF info.coll = "addr"
              THEN {Stream("junk", [j \in 1..(ADDR_BUF_LEN + 1) |-> 0], <<>>)}
              ELSE {})
        \cup (IF info.fam = "aget"
              THEN {Stream("foreign",
                           DevFrame(<<2, (a.dest + 1) % 256, FC_GET_ADDRESS, 0, 3>>), <<>>)}
              ELSE {})
        \cup (IF info.fam = "aset"
              THEN {Stream("oldaddr", DevFrame(<<MASTER_ADDR, a.dest, FC_SET_ADDRESS>>), <<>>)}
              ELSE {})

\* A target list response as the protocol frames it: count at offset 8.
LongHeaderList(dest, out, count, n, bpt, seed) ==
    DevFrame(<<MASTER_ADDR, dest, FC_TARGET_LIST, out, count>> \o Payload(bpt * n, seed))

\* A target list response with a 6-byte header: output at offset 4, count at offset 5.
ShortHeaderList(dest, out, count, n, bpt, seed) ==
    LET head == <<162, MASTER_ADDR, dest, FC_TARGET_LIST, out, count>>
        body == head \o Payload(bpt * n, seed)
    IN  body \o <<SumRange(body, 1, Len(body) - 1) % 256, END_BYTE>>

TargetCounts == {0, 1, 2, MAX_TARGETS}

\* The frame shapes receiveTargetListResponse can take to the decoder in each mode.
ListFrame(bitrate, dest, out, count, n, seed) ==
    IF bitrate = 32 THEN ShortHeaderList(dest, out, count, n, 14, seed)
    ELSE LongHeaderList(dest, out, count, n, 7, seed)

TLStreams(name, a) ==
    LET bitrate == OpInfo(name).sub
        hl == HeaderLen(bitrate)
        g2 == ListFrame(bitrate, a.dest, U8(a.out), 2, 2, 7)
        n == Len(g2)
    IN       {Stream("full", ListFrame(bitrate, a.dest, U8(a.out), c, c, 7), <<>>) : c \in TargetCounts}
        \cup {Stream("full", LongHeaderList(a.dest, U8(a.out), c, c, BytesPerTgt(bitrate), 7), <<>>) :
                 c \in {0, 2}}
        \cup {Stream("overflow", ListFrame(bitrate, a.dest, U8(a.out), MAX_TARGETS + 1, MAX_TARGETS + 1, 7), <<>>),
              Stream("clipping", ListFrame(bitrate, a.dest, U8(a.out), CLIPPING, 0, 7), <<>>),
              Stream("clipping", ListFrame(bitrate, a.dest, U8(a.out), CLIPPING, CLIPPING, 7), <<>>),
              Stream("short68", <<SD2, 2, 2, SD2, U8(a.out), 0, U8(a.out), END_BYTE>>, <<>>)}
        \cup {Stream("tampered", Tamper(g2, i, (At(g2, i) + 1) % 256), <<>>) :
                 i \in {0, 1, 4, 5, 6, hl - 2, hl - 1, hl, n - 3, n - 2, n - 1}}
        \cup Truncations("truncated", g2, {1, hl - 1, hl, hl + 1, n - 1})
        \cup {Stream("extended", g2 \o <<0>>, <<>>)}

-----------------------------------------------------------------------------
(* Arguments a call is made with                                           *)

BaseArgs == [dest |-> 128, out |-> 1, val |-> 2, timeout |-> MaxTimeout]

ArgSamples(name) ==
    LET info == OpInfo(name)
    IN       {BaseArgs,
              [BaseArgs EXCEPT !.timeout = 0],
              [BaseArgs EXCEPT !.timeout = 1],
              [BaseArgs EXCEPT !.dest = END_BYTE],
              [BaseArgs EXCEPT !.out = 4],
              [BaseArgs EXCEPT !.out = 0, !.timeout = 0]}
        \cup (IF info.chkVal
              THEN {[BaseArgs EXCEPT !.val = v] : v \in {info.lo - 1, info.lo, info.hi, info.hi + 1}}
                   \cup {[BaseArgs EXCEPT !.val = info.hi + 1, !.timeout = 0]}
              ELSE {[BaseArgs EXCEPT !.val = END_BYTE]})

\* The streams tried against a call: every fault against the base arguments, the
\* prescribed answer against the others.
Streams(name, a) ==
    LET all == IF OpInfo(name).fam = "tl" THEN TLStreams(name, a) ELSE FixedStreams(name, a)
    IN  IF a = BaseArgs THEN all ELSE {s \in all : s.kind = "full"}

-----------------------------------------------------------------------------
(* One public call against the transport                                   *)

\* What the caller's structures hold before the call.
PopulatedList ==
    [status |-> TARGET_LIST_OK, outputNumber |-> 3, nrOfTargets |-> 1, clippingFlag |-> 1,
     targets |-> [i \in 1..MAX_TARGETS |->
                    IF i = 1 THEN [signal |-> <<40, 1>>, velocity |-> <<-150, 100>>,
                                   range |-> <<1234, 100>>, angle |-> <<-5, 100>>]
                    ELSE ZeroTarget]]

PriorValue == <<-1, 1>>

\* Bytes a decoder read finds beyond the end of the collected buffer.
Garbage == {0, 1, MAX_TARGETS + 1, CLIPPING}

Init ==
    /\ pc = "idle" /\ op = [name |-> "none"]
    /\ tx = <<>> /\ rx = <<>> /\ wire = <<>> /\ buf = <<>>
    /\ now = U32(0) /\ startTime = U32(0)
    /\ result = "none" /\ outv = PriorValue /\ tlist = PopulatedList
    /\ rdMax = -1 /\ answer = "none"
    /\ FcsOff
    /\ DebugOff

Collecting == pc \in {"collect", "hdr", "body"}

Coll == OpInfo(op.name).coll

\* The operations that dump the command frame with Serial.print instead of
\* debugPrintHexFrame.
SerialSenders ==
    {"iSYS_setOutputSignalMin", "iSYS_setOutputSignalMax",
     "iSYS_getOutputSignalMin", "iSYS_getOutputSignalMax",
     "iSYS_setOutputDirection",
     "iSYS_setOutputFilterType", "iSYS_getOutputFilterType", "iSYS_getOutputSignalFilter"}

\* The operations that dump the collected response with Serial.print.
SerialReceivers ==
    {"iSYS_setOutputSignalMin", "iSYS_getOutputSignalMin", "iSYS_getOutputSignalMax",
     "iSYS_setOutputDirection", "sendEEPROMCommand"}

\* for (...) Serial.print(...); Serial.println();
SerialDump == serialOut' = serialOut + 1 /\ debugOut' = debugOut

\* if (!(_debugEnabled && _debugStream)) return ...; _debugStream->print(...) ...
debugPrintHexFrame ==
    /\ debugOut' = IF debugEnabled THEN debugOut + 1 ELSE debugOut
    /\ serialOut' = serialOut

NoDump == UNCHANGED <<serialOut, debugOut>>

DumpSent(name) == IF name \in SerialSenders THEN SerialDump ELSE debugPrintHexFrame

DumpReceived(name) == IF name \in SerialReceivers THEN SerialDump ELSE debugPrintHexFrame

\* The caller invokes one public operation: argument checks, then the command frame
\* is written, then the collector starts.
Call(name, a) ==
    LET info == OpInfo(name)
        pre == PreCheck(name, a)
    IN  /\ pc = "idle"
        /\ op' = [name |-> name, dest |-> a.dest, out |-> a.out, val |-> a.val,
                  timeout |-> a.timeout]
        /\ IF pre # "ERR_OK"
           THEN /\ result' = pre /\ pc' = "done"
                /\ UNCHANGED <<tx, tlist, startTime>>
           ELSE /\ tx' = Append(tx, Command(name, a))
                /\ tlist' = IF info.fam = "tl" THEN ZeroList ELSE tlist
                /\ IF info.chkTimeout = "post" /\ a.timeout = 0
                   THEN result' = "ERR_TIMEOUT" /\ pc' = "done" /\ UNCHANGED startTime
                   ELSE /\ result' = result
                        /\ pc' = IF info.fam = "tl" THEN "hdr" ELSE "collect"
                        /\ startTime' = now
        /\ IF pre # "ERR_OK" THEN NoDump ELSE DumpSent(name)
        /\ UNCHANGED <<rx, wire, buf, now, outv, rdMax, answer, debugEnabled>>
        /\ UNCHANGED fcsVars

\* The device answers the command: some bytes reach the receive side, the rest is
\* withheld until after the call.
Respond ==
    /\ Collecting /\ answer = "none" /\ tx # <<>>
    /\ \E s \in Streams(op.name, [dest |-> op.dest, out |-> op.out, val |-> op.val,
                                  timeout |-> op.timeout]) :
          /\ rx' = rx \o s.sent
          /\ wire' = s.held
          /\ answer' = s.kind
    /\ UNCHANGED <<pc, op, tx, buf, now, startTime, result, outv, tlist, rdMax>>
    /\ UNCHANGED fcsVars
    /\ UNCHANGED debugEnabled
    /\ NoDump

\* A millisecond passes while a collector polls.
Tick ==
    /\ Collecting
    /\ InTime(now, startTime, op.timeout)
    /\ now' = U32Inc(now)
    /\ UNCHANGED <<pc, op, tx, rx, wire, buf, startTime, result, outv, tlist, rdMax, answer>>
    /\ UNCHANGED fcsVars
    /\ UNCHANGED debugEnabled
    /\ NoDump

Return(r) ==
    /\ result' = r.res /\ outv' = r.out /\ pc' = "done"

\* while ((millis() - startTime) < timeout && idx < N)
\*     if (available) { response[idx++] = read(); if (response[idx - 1] == 0x16) break; }
\* followed, once the loop is left, by the length, fixed-byte and checksum tests.
ReadBrk ==
    /\ pc = "collect" /\ Coll = "brk"
    /\ InTime(now, startTime, op.timeout)
    /\ Len(buf) < OpInfo(op.name).need
    /\ rx # <<>>
    /\ buf' = Append(buf, Head(rx))
    /\ rx' = Tail(rx)
    /\ IF Head(rx) = END_BYTE \/ Len(buf) + 1 = OpInfo(op.name).need
       THEN Return(BrkFinish(OpInfo(op.name), op, buf', outv))
       ELSE UNCHANGED <<pc, result, outv>>
    /\ UNCHANGED <<op, tx, wire, now, startTime, tlist, rdMax, answer>>
    /\ UNCHANGED fcsVars
    /\ UNCHANGED debugEnabled
    /\ IF Head(rx) = END_BYTE \/ Len(buf) + 1 = OpInfo(op.name).need
       THEN DumpReceived(op.name) ELSE NoDump

\* A collector that writes the command again when the deadline passes for the first
\* time (sensitivity of C22).
Mut_TimeoutBrk ==
    /\ pc = "collect" /\ Coll = "brk"
    /\ ~InTime(now, startTime, op.timeout)
    /\ IF Len(tx) < 2 /\ buf = <<>>
       THEN /\ tx' = Append(tx, tx[Len(tx)])
            /\ startTime' = now
            /\ UNCHANGED <<pc, result, outv>>
            /\ NoDump
       ELSE /\ Return(BrkFinish(OpInfo(op.name), op, buf, outv))
            /\ DumpReceived(op.name)
            /\ UNCHANGED <<tx, startTime>>
    /\ UNCHANGED <<op, rx, wire, buf, now, tlist, rdMax, answer>>
    /\ UNCHANGED fcsVars
    /\ UNCHANGED debugEnabled

TimeoutBrk ==
    /\ pc = "collect" /\ Coll = "brk"
    /\ ~InTime(now, startTime, op.timeout)
    /\ Return(BrkFinish(OpInfo(op.name), op, buf, outv))
    /\ UNCHANGED <<op, tx, rx, wire, buf, now, startTime, tlist, rdMax, answer>>
    /\ UNCHANGED fcsVars
    /\ UNCHANGED debugEnabled
    /\ DumpReceived(op.name)

\* while ((millis() - startTime) < timeout)
\*     if (available) { byte = read(); buffer[index++] = byte;
\*                      if (byte == 0x16 && index >= N) return ...;
\*                      if (index > N) return ERR_COMMAND_MAX_DATA_OVERFLOW; }
\* buffer has N elements: the store at index N lies outside it, and the call then
\* either goes on as written or is lost to the corrupted stack.
ReadTerm ==
    /\ pc = "collect" /\ Coll = "term"
    /\ InTime(now, startTime, op.timeout)
    /\ rx # <<>>
    /\ buf' = Append(buf, Head(rx))
    /\ rx' = Tail(rx)
    /\ \/ /\ Len(buf) >= OpInfo(op.name).need
          /\ Return([res |-> "STACK_CORRUPTED", out |-> outv])
          /\ NoDump
       \/ IF Head(rx) = END_BYTE /\ Len(buf) + 1 >= OpInfo(op.name).need
          THEN /\ debugPrintHexFrame
               /\ Return(TermFinish(OpInfo(op.name), op, buf', outv))
          ELSE IF Len(buf) + 1 > OpInfo(op.name).need
          THEN /\ Return([res |-> "ERR_COMMAND_MAX_DATA_OVERFLOW", out |-> outv])
               /\ NoDump
          ELSE UNCHANGED <<pc, result, outv, serialOut, debugOut>>
    /\ UNCHANGED <<op, tx, wire, now, startTime, tlist, rdMax, answer>>
    /\ UNCHANGED fcsVars
    /\ UNCHANGED debugEnabled

\* A collector that leaves its loop at the deadline only if something has arrived
\* (sensitivity of C23).
Mut_TimeoutTerm ==
    /\ pc = "collect" /\ Coll = "term"
    /\ ~InTime(now, startTime, op.timeout)
    /\ buf # <<>>
    /\ Return([res |-> "ERR_COMMAND_NO_DATA_RECEIVED", out |-> outv])
    /\ UNCHANGED <<op, tx, rx, wire, buf, now, startTime, tlist, rdMax, answer>>
    /\ UNCHANGED fcsVars
    /\ UNCHANGED debugEnabled
    /\ NoDump

TimeoutTerm ==
    /\ pc = "collect" /\ Coll = "term"
    /\ ~InTime(now, startTime, op.timeout)
    /\ Return([res |-> "ERR_COMMAND_NO_DATA_RECEIVED", out |-> outv])
    /\ UNCHANGED <<op, tx, rx, wire, buf, now, startTime, tlist, rdMax, answer>>
    /\ UNCHANGED fcsVars
    /\ UNCHANGED debugEnabled
    /\ NoDump

\* while ((millis() - startTime) < timeout)
\*     if (available) { b = read();
\*                      if (count < sizeof(buffer)) buffer[count++] = b;
\*                      else return ERR_COMMAND_MAX_DATA_OVERFLOW;
\*                      if (b == 0x16 && count >= N) return ...; }
ReadAddr ==
    /\ pc = "collect" /\ Coll = "addr"
    /\ InTime(now, startTime, op.timeout)
    /\ rx # <<>>
    /\ rx' = Tail(rx)
    /\ IF Len(buf) >= ADDR_BUF_LEN
       THEN /\ Return([res |-> "ERR_COMMAND_MAX_DATA_OVERFLOW", out |-> outv])
            /\ UNCHANGED buf
       ELSE /\ buf' = Append(buf, Head(rx))
            /\ IF Head(rx) = END_BYTE /\ Len(buf) + 1 >= OpInfo(op.name).need
               THEN Return(AddrFinish(OpInfo(op.name), op, buf', outv))
               ELSE UNCHANGED <<pc, result, outv>>
    /\ UNCHANGED <<op, tx, wire, now, startTime, tlist, rdMax, answer>>
    /\ UNCHANGED fcsVars
    /\ UNCHANGED debugEnabled
    /\ IF Len(buf) < ADDR_BUF_LEN /\ Head(rx) = END_BYTE /\ Len(buf) + 1 >= OpInfo(op.name).need
       THEN debugPrintHexFrame ELSE NoDump

TimeoutAddr ==
    /\ pc = "collect" /\ Coll = "addr"
    /\ ~InTime(now, startTime, op.timeout)
    /\ Return([res |-> "ERR_COMMAND_NO_DATA_RECEIVED", out |-> outv])
    /\ UNCHANGED <<op, tx, rx, wire, buf, now, startTime, tlist, rdMax, answer>>
    /\ UNCHANGED fcsVars
    /\ UNCHANGED debugEnabled
    /\ NoDump

\* An expected length without the checksum and end bytes (sensitivity of C6).
Mut_ExpectedLength(bitrate, nrOfTargets) ==
    (HeaderLen(bitrate) + BytesPerTgt(bitrate) * nrOfTargets) % 65536

\* const uint16_t expectedLength = headerLen + (bytesPerTgt * nrOfTargets) + 2
ExpectedLength(bitrate, nrOfTargets) ==
    (HeaderLen(bitrate) + BytesPerTgt(bitrate) * nrOfTargets + 2) % 65536

\* A receiver that collects and decodes in the mode that was not requested
\* (sensitivity of C32).
Mut_Bitrate == IF OpInfo(op.name).sub = 16 THEN 32 ELSE 16

\* The bitrate argument getTargetList16 / getTargetList32 passes to
\* receiveTargetListResponse, and that one to decodeTargetFrame.
Bitrate == OpInfo(op.name).sub

\* receiveTargetListResponse, first loop: bytes are pushed until headerLen are in;
\* then the count byte is tested.
ReadHdr ==
    /\ pc = "hdr"
    /\ InTime(now, startTime, op.timeout)
    /\ Len(buf) < HeaderLen(Bitrate)
    /\ rx # <<>>
    /\ buf' = Append(buf, Head(rx))
    /\ rx' = Tail(rx)
    /\ IF Len(buf) + 1 < HeaderLen(Bitrate)
       THEN UNCHANGED <<pc, result>>
       ELSE LET nrOfTargets == At(buf', CountIndex(Bitrate))
            IN  IF nrOfTargets > MAX_TARGETS /\ nrOfTargets # CLIPPING
                THEN result' = "ERR_COMMAND_MAX_DATA_OVERFLOW" /\ pc' = "done"
                ELSE result' = result /\ pc' = "body"
    /\ UNCHANGED <<op, tx, wire, now, startTime, outv, tlist, rdMax, answer>>
    /\ UNCHANGED fcsVars
    /\ UNCHANGED debugEnabled
    /\ NoDump

TimeoutHdr ==
    /\ pc = "hdr"
    /\ ~InTime(now, startTime, op.timeout)
    /\ result' = "ERR_COMMAND_NO_DATA_RECEIVED" /\ pc' = "done"
    /\ UNCHANGED <<op, tx, rx, wire, buf, now, startTime, outv, tlist, rdMax, answer>>
    /\ UNCHANGED fcsVars
    /\ UNCHANGED debugEnabled
    /\ NoDump

\* Second loop: bytes are pushed until expectedLength are in; then the last byte is
\* tested and the buffer handed to decodeTargetFrame.
ReadBody ==
    /\ pc = "body"
    /\ InTime(now, startTime, op.timeout)
    /\ Len(buf) < ExpectedLength(Bitrate, At(buf, CountIndex(Bitrate)))
    /\ rx # <<>>
    /\ buf' = Append(buf, Head(rx))
    /\ rx' = Tail(rx)
    /\ IF Len(buf) + 1 < ExpectedLength(Bitrate, At(buf, CountIndex(Bitrate)))
       THEN UNCHANGED <<pc, result, tlist, rdMax>>
       ELSE IF Head(rx) # END_BYTE
       THEN /\ result' = "ERR_COMMAND_RX_FRAME_DAMAGED" /\ pc' = "done"
            /\ UNCHANGED <<tlist, rdMax>>
       ELSE \E g \in Garbage :
               LET d == decodeTargetFrame(buf', Len(buf'), Bitrate, tlist, g)
               IN  /\ result' = d.res /\ tlist' = d.list /\ rdMax' = d.rd
                   /\ pc' = "done"
    /\ UNCHANGED <<op, tx, wire, now, startTime, outv, answer>>
    /\ UNCHANGED fcsVars
    /\ UNCHANGED debugEnabled
    /\ IF Len(buf) + 1 = ExpectedLength(Bitrate, At(buf, CountIndex(Bitrate))) /\ Head(rx) = END_BYTE
       THEN debugPrintHexFrame ELSE NoDump

TimeoutBody ==
    /\ pc = "body"
    /\ ~InTime(now, startTime, op.timeout)
    /\ result' = "ERR_FRAME_INCOMPLETE" /\ pc' = "done"
    /\ UNCHANGED <<op, tx, rx, wire, buf, now, startTime, outv, tlist, rdMax, answer>>
    /\ UNCHANGED fcsVars
    /\ UNCHANGED debugEnabled
    /\ NoDump

Next ==
    \/ \E name \in OpNames : \E a \in ArgSamples(name) : Call(name, a)
    \/ Respond
    \/ Tick
    \/ ReadBrk
    \/ TimeoutBrk
    \/ ReadTerm
    \/ TimeoutTerm
    \/ ReadAddr
    \/ TimeoutAddr
    \/ ReadHdr
    \/ TimeoutHdr
    \/ ReadBody
    \/ TimeoutBody

Spec == Init /\ [][Next]_vars

-----------------------------------------------------------------------------
(* Two calls in a row on the same transport                                *)

\* The operations and arguments of the second call: one operation per collector.
SeqOps == {"iSYS_setOutputRangeMin", "iSYS_startAcquisition", "iSYS_getDeviceAddress",
           "getTargetList16"}

SeqArgs == [BaseArgs EXCEPT !.timeout = 1]

\* The second call is followed after a first call of FirstOps that left at most
\* MaxStale bytes unread.
FirstOps == {"iSYS_setOutputRangeMin", "iSYS_startAcquisition"}

MaxStale == 8

\* A call entry that empties the receive queue first (sensitivity of C30).
Mut_CallAgain(name, a) ==
    LET info == OpInfo(name)
        pre == PreCheck(name, a)
    IN  /\ pc = "done" /\ Len(tx) = 1
        /\ op.name \in FirstOps /\ Len(rx) <= MaxStale
        /\ op' = [name |-> name, dest |-> a.dest, out |-> a.out, val |-> a.val,
                  timeout |-> a.timeout]
        /\ buf' = <<>> /\ answer' = "none" /\ rdMax' = -1
        /\ IF pre # "ERR_OK"
           THEN /\ result' = pre /\ pc' = "done"
                /\ UNCHANGED <<tx, tlist, startTime>>
                /\ NoDump
           ELSE /\ tx' = Append(tx, Command(name, a))
                /\ tlist' = IF info.fam = "tl" THEN ZeroList ELSE tlist
                /\ DumpSent(name)
                /\ IF info.chkTimeout = "post" /\ a.timeout = 0
                   THEN result' = "ERR_TIMEOUT" /\ pc' = "done" /\ UNCHANGED startTime
                   ELSE /\ result' = "none"
                        /\ pc' = IF info.fam = "tl" THEN "hdr" ELSE "collect"
                        /\ startTime' = now
        /\ rx' = <<>>
        /\ UNCHANGED <<wire, now, outv, debugEnabled>>
        /\ UNCHANGED fcsVars

\* The caller, having got the result of one call, invokes the next operation. The
\* new call has its own response buffer and clock sample; the transport's receive
\* queue is the same object (_serial) and is taken as the last call left it.
CallAgain(name, a) ==
    LET info == OpInfo(name)
        pre == PreCheck(name, a)
    IN  /\ pc = "done" /\ Len(tx) = 1
        /\ op.name \in FirstOps /\ Len(rx) <= MaxStale
        /\ op' = [name |-> name, dest |-> a.dest, out |-> a.out, val |-> a.val,
                  timeout |-> a.timeout]
        /\ buf' = <<>> /\ answer' = "none" /\ rdMax' = -1
        /\ IF pre # "ERR_OK"
           THEN /\ result' = pre /\ pc' = "done"
                /\ UNCHANGED <<tx, tlist, startTime>>
                /\ NoDump
           ELSE /\ tx' = Append(tx, Command(name, a))
                /\ tlist' = IF info.fam = "tl" THEN ZeroList ELSE tlist
                /\ DumpSent(name)
                /\ IF info.chkTimeout = "post" /\ a.timeout = 0
                   THEN result' = "ERR_TIMEOUT" /\ pc' = "done" /\ UNCHANGED startTime
                   ELSE /\ result' = "none"
                        /\ pc' = IF info.fam = "tl" THEN "hdr" ELSE "collect"
                        /\ startTime' = now
        /\ UNCHANGED <<rx, wire, now, outv, debugEnabled>>
        /\ UNCHANGED fcsVars

NextSeq ==
    \/ Next
    \/ \E name \in SeqOps : CallAgain(name, SeqArgs)

SpecSeq == Init /\ [][NextSeq]_vars

-----------------------------------------------------------------------------
(* A range is set and then read back                                       *)

\* uint16_t range: the ranges a setter is called with
RoundRanges == 0..150

RoundArgs(r) == [BaseArgs EXCEPT !.val = r, !.timeout = 1]

GetterOf(name) ==
    IF name = "iSYS_setOutputRangeMin" THEN "iSYS_getOutputRangeMin" ELSE "iSYS_getOutputRangeMax"

\* The caller, having set a range with ERR_OK, calls the getter of the same range
\* with the same output, address and timeout.
ReadBack ==
    LET name == GetterOf(op.name)
        a == [dest |-> op.dest, out |-> op.out, val |-> op.val, timeout |-> op.timeout]
    IN  /\ pc = "done" /\ Len(tx) = 1 /\ result = "ERR_OK" /\ rx = <<>>
        /\ op.name \in {"iSYS_setOutputRangeMin", "iSYS_setOutputRangeMax"}
        /\ PreCheck(name, a) = "ERR_OK"
        /\ op' = [op EXCEPT !.name = name]
        /\ buf' = <<>> /\ answer' = "none"
        /\ tx' = Append(tx, Command(name, a))
        /\ DumpSent(name)
        /\ result' = "none" /\ pc' = "collect" /\ startTime' = now
        /\ UNCHANGED <<rx, wire, now, outv, tlist, rdMax, debugEnabled>>
        /\ UNCHANGED fcsVars

\* The device acknowledges the setter as the protocol prescribes.
RespondAck ==
    /\ op.name \in {"iSYS_setOutputRangeMin", "iSYS_setOutputRangeMax"}
    /\ Respond

\* The device answers the getter with the read response that carries the two value
\* bytes the setter's frame gave it.
RespondStored ==
    /\ pc = "collect" /\ answer = "none" /\ Len(tx) = 2
    /\ op.name \in {"iSYS_getOutputRangeMin", "iSYS_getOutputRangeMax"}
    /\ rx' = rx \o DevFrame(<<MASTER_ADDR, op.dest, FC_READ, At(tx[1], 9), At(tx[1], 10)>>)
    /\ answer' = "stored"
    /\ UNCHANGED <<pc, op, tx, wire, buf, now, startTime, result, outv, tlist, rdMax>>
    /\ UNCHANGED fcsVars
    /\ UNCHANGED debugEnabled
    /\ NoDump

NextRound ==
    \/ \E name \in {"iSYS_setOutputRangeMin", "iSYS_setOutputRangeMax"} :
          \E r \in RoundRanges : Call(name, RoundArgs(r))
    \/ RespondAck
    \/ ReadBack
    \/ RespondStored
    \/ Tick
    \/ ReadBrk
    \/ TimeoutBrk

SpecRound == Init /\ [][NextRound]_vars

-----------------------------------------------------------------------------
(* A velocity threshold is set                                             *)

\* uint16_t velocity: the velocities (km/h) a setter is called with
SetVelocities == 0..251

NextVelocity ==
    \/ \E name \in {"iSYS_setOutputVelocityMin", "iSYS_setOutputVelocityMax"} :
          \E v \in SetVelocities : Call(name, [BaseArgs EXCEPT !.val = v, !.timeout = 1])
    \/ Respond
    \/ Tick
    \/ ReadBrk
    \/ TimeoutBrk

SpecVelocity == Init /\ [][NextVelocity]_vars

-----------------------------------------------------------------------------
(* Calls whose transport write is short                                    *)

\* The operations followed through a short write: one that keeps the value
\* _serial.write returns in bytesWritten and one that discards it.
ShortOps == {"iSYS_setOutputRangeMin", "getTargetList16"}

\* Numbers of bytes _serial.write may report instead of the frame length.
ShortCounts(frame) == {4, Len(frame) - 1}

\* A public call during which _serial.write(command, n) accepts and reports k < n
\* bytes. bytesWritten is assigned and never read, or the value is discarded: the
\* call goes on to its collector as after a complete write.
CallShort(name, a) ==
    LET info == OpInfo(name)
        pre == PreCheck(name, a)
    IN  /\ pc = "idle"
        /\ pre = "ERR_OK"
        /\ op' = [name |-> name, dest |-> a.dest, out |-> a.out, val |-> a.val,
                  timeout |-> a.timeout]
        /\ \E k \in ShortCounts(Command(name, a)) :
              tx' = Append(tx, SubSeq(Command(name, a), 1, k))
        /\ tlist' = IF info.fam = "tl" THEN ZeroList ELSE tlist
        /\ IF info.chkTimeout = "post" /\ a.timeout = 0
           THEN result' = "ERR_TIMEOUT" /\ pc' = "done" /\ UNCHANGED startTime
           ELSE /\ result' = result
                /\ pc' = IF info.fam = "tl" THEN "hdr" ELSE "collect"
                /\ startTime' = now
        /\ DumpSent(name)
        /\ UNCHANGED <<rx, wire, buf, now, outv, rdMax, answer, debugEnabled>>
        /\ UNCHANGED fcsVars

NextWrite ==
    \/ Next
    \/ \E name \in ShortOps : CallShort(name, [BaseArgs EXCEPT !.timeout = 1])

SpecWrite == Init /\ [][NextWrite]_vars

-----------------------------------------------------------------------------
(* Calls made shortly before the millisecond clock wraps around            *)

\* millis() at the call: 2^32 - 1 and 2^32 - 2
WrapStarts == {[hi |-> HALF - 1, lo |-> HALF - 1], [hi |-> HALF - 1, lo |-> HALF - 2]}

InitWrap ==
    /\ pc = "idle" /\ op = [name |-> "none"]
    /\ tx = <<>> /\ rx = <<>> /\ wire = <<>> /\ buf = <<>>
    /\ now \in WrapStarts /\ startTime = U32(0)
    /\ result = "none" /\ outv = PriorValue /\ tlist = PopulatedList
    /\ rdMax = -1 /\ answer = "none"
    /\ FcsOff
    /\ DebugOff

SpecWrap == InitWrap /\ [][Next]_vars

-----------------------------------------------------------------------------
(* Calls with the debug output switched on or off                          *)

\* setDebug(stream, enabled) with a stream, or setDebugEnabled(enabled) once a stream
\* is set, between calls.
setDebug(enabled) ==
    /\ pc = "idle"
    /\ debugEnabled # enabled
    /\ debugEnabled' = enabled
    /\ UNCHANGED <<serialOut, debugOut>>
    /\ UNCHANGED callVars
    /\ UNCHANGED fcsVars

NextDebug ==
    \/ Next
    \/ \E enabled \in BOOLEAN : setDebug(enabled)

SpecDebug == Init /\ [][NextDebug]_vars

\* The scheduling of one call: the clock keeps advancing and the calling thread
\* keeps executing its loop.
Step ==
    \/ ReadBrk \/ TimeoutBrk \/ ReadTerm \/ TimeoutTerm \/ ReadAddr \/ TimeoutAddr
    \/ ReadHdr \/ TimeoutHdr \/ ReadBody \/ TimeoutBody

SpecLive == Init /\ [][Next]_vars /\ WF_vars(Tick) /\ WF_vars(Step)

-----------------------------------------------------------------------------
(* decodeTargetFrame on its own                                            *)

DecodeFrames ==
    LET l16 == LongHeaderList(128, 1, 2, 2, 7, 7)
        l32 == LongHeaderList(128, 1, 2, 2, 14, 7)
        s32 == ShortHeaderList(128, 1, 2, 2, 14, 7)
    IN       {LongHeaderList(128, 1, c, c, bpt, 7) : c \in TargetCounts \cup {MAX_TARGETS - 1}, bpt \in {7, 14}}
        \cup {ShortHeaderList(128, 1, c, c, bpt, 7) : c \in {0, 1, 2}, bpt \in {7, 14}}
        \cup {LongHeaderList(128, 1, c, 0, 7, 7) : c \in {1, MAX_TARGETS, MAX_TARGETS + 1, 254, CLIPPING}}
        \cup {ShortHeaderList(128, 1, c, 0, 14, 7) : c \in {1, MAX_TARGETS + 1, CLIPPING}}
        \cup {Tamper(f, i, b) : f \in {l16, l32, s32}, i \in {0}, b \in {0, 162, SD2}}
        \cup {Tamper(f, Len(f) - 1, 0) : f \in {l16, l32, s32}}
        \cup {Tamper(LongHeaderList(128, 1, c, 0, 7, 7), 10, b) :
                 c \in {0, MAX_TARGETS, MAX_TARGETS + 1, CLIPPING}, b \in {0, SD2}}
        \cup {Tamper(ShortHeaderList(128, 1, c, 0, 14, 7), 7, 0) :
                 c \in {0, MAX_TARGETS + 1, CLIPPING}}
        \cup {<<END_BYTE>>, <<SD2, END_BYTE>>, <<162, 0, 0, END_BYTE>>,
              <<162, 0, 0, 0, 1, 0, 0, END_BYTE>>, <<SD2, 2, 2, SD2, 1, 0, 1, END_BYTE>>,
              <<0, 0, 0, 0>>}

InitDecode ==
    /\ pc = "decode"
    /\ \E bitrate \in {16, 32} : op = [name |-> "decodeTargetFrame", bitrate |-> bitrate]
    /\ buf \in DecodeFrames
    /\ tlist \in {ZeroList, PopulatedList}
    /\ tx = <<>> /\ rx = <<>> /\ wire = <<>>
    /\ now = U32(0) /\ startTime = U32(0)
    /\ result = "none" /\ outv = PriorValue
    /\ rdMax = -1 /\ answer = "none"
    /\ FcsOff
    /\ DebugOff

Decode ==
    /\ pc = "decode"
    /\ \E g \in Garbage :
          LET d == decodeTargetFrame(buf, Len(buf), op.bitrate, tlist, g)
          IN  /\ result' = d.res /\ tlist' = d.list /\ rdMax' = d.rd
    /\ pc' = "done"
    /\ UNCHANGED <<op, tx, rx, wire, buf, now, startTime, outv, answer>>
    /\ UNCHANGED fcsVars
    /\ UNCHANGED debugEnabled
    /\ NoDump

NextDecode == Decode

SpecDecode == InitDecode /\ [][NextDecode]_vars

-----------------------------------------------------------------------------
(* C1: for every buffer and every startIndex <= endIndex < length,         *)
(* calculateFCS adds each byte of data[startIndex..endIndex] once and then *)
(* returns their sum mod 256: once endIndex - startIndex + 1 bytes have    *)
(* been added the loop is over, and the value returned is the sum mod 256. *)
C1_ReturnsSumOfRange ==
    /\ fPc = "done" => fAcc = SumRange(fData, fStart, fEnd) % 256
    /\ (fPc = "loop" /\ fIter = fEnd - fStart + 1) => ~FCSCond(fI, fEnd)
    /\ fIter <= fEnd - fStart + 1

-----------------------------------------------------------------------------
(* C2: every command frame written to the transport is well-formed: 0x68   *)
(* at offsets 0 and 3, both length bytes equal to the number of bytes from *)
(* DEST through the last PDU byte, SRC = 0x01, the second-to-last byte the *)
(* sum of DEST..last PDU byte mod 256, the last byte 0x16.                 *)
WellFormed(f) ==
    /\ Len(f) >= 8
    /\ At(f, 0) = 104 /\ At(f, 3) = 104
    /\ At(f, 1) = At(f, 2) /\ At(f, 1) = Len(f) - 6
    /\ At(f, 5) = 1
    /\ At(f, Len(f) - 2) = SumRange(f, 4, Len(f) - 3) % 256
    /\ At(f, Len(f) - 1) = 22

C2_CommandFramesWellFormed == \A k \in 1..Len(tx) : WellFormed(tx[k])

C2_Witness ==
    /\ Len(tx) = 1 /\ op.name = "sendEEPROMCommand" /\ op.val = 22
    /\ tx[1] = <<104, 4, 4, 104, 128, 1, 223, 22, 118, 22>>

(* C3: a public operation called with timeout = 0 (its other arguments     *)
(* valid) returns ERR_TIMEOUT and writes nothing to the transport.         *)
ArgsInRange ==
    /\ OpInfo(op.name).chkOut => op.out \in 1..3
    /\ OpInfo(op.name).chkVal => (op.val >= OpInfo(op.name).lo /\ op.val <= OpInfo(op.name).hi)

C3_ZeroTimeoutRejected ==
    (pc = "done" /\ op.timeout = 0 /\ ArgsInRange) => (result = "ERR_TIMEOUT" /\ tx = <<>>)

(* C4: a write-parameter setter, acquisition start/stop or EEPROM command  *)
(* returns ERR_OK only if exactly the 9 bytes                              *)
(* 68 03 03 68 01 dest FUNC (01 + dest + FUNC) mod 256 16 were collected,  *)
(* FUNC being the function code of the request.                            *)
AckOnly == OpInfo(op.name).fam \in {"set", "acq", "eeprom"}

C4_AckAcceptedOnlyExact ==
    (pc = "done" /\ AckOnly /\ result = "ERR_OK") =>
        buf = <<104, 3, 3, 104, 1, op.dest, At(tx[1], 6),
                (1 + op.dest + At(tx[1], 6)) % 256, 22>>

C4_Witness ==
    /\ pc = "done" /\ op.name = "iSYS_stopAcquisition" /\ result = "ERR_OK"
    /\ buf = <<104, 3, 3, 104, 1, 128, 209, 82, 22>>

(* C5: a read-parameter getter returns ERR_OK only if exactly 11 bytes     *)
(* were collected with bytes 0..6 = 68 05 05 68 01 dest D4, byte 10 = 16   *)
(* and byte 9 = sum of bytes 4..8 mod 256; the value delivered is derived  *)
(* from the raw value (byte7 << 8) | byte8 of that frame.                  *)
RawOf(r) == At(r, 7) * 256 + At(r, 8)

DerivedFrom(name, raw) ==
    IF raw = 0 THEN <<0, 1>>
    ELSE IF name \in {"iSYS_getOutputRangeMin", "iSYS_getOutputRangeMax",
                      "iSYS_getOutputSignalMin", "iSYS_getOutputSignalMax"}
    THEN <<raw, 10>>                       \* raw / 10
    ELSE IF name \in {"iSYS_getOutputVelocityMin", "iSYS_getOutputVelocityMax"}
    THEN <<raw * 36, 100>>                 \* raw / 10 * 3.6
    ELSE <<raw, 1>>                        \* the enumeration value itself

C5_ReadAcceptedOnlyExact ==
    (pc = "done" /\ OpInfo(op.name).fam = "get" /\ result = "ERR_OK") =>
        /\ Len(buf) = 11
        /\ SubSeq(buf, 1, 7) = <<104, 5, 5, 104, 1, op.dest, 212>>
        /\ At(buf, 10) = 22
        /\ At(buf, 9) = SumRange(buf, 4, 8) % 256
        /\ outv = DerivedFrom(op.name, RawOf(buf))

C5_Witness ==
    /\ pc = "done" /\ op.name = "iSYS_getOutputVelocityMax" /\ result = "ERR_OK"
    /\ RawOf(buf) = 300 /\ outv = <<10800, 100>>

(* C6: once the header of a target list response has revealed a count n in *)
(* 0..35, the response is handed to the decoder only when exactly          *)
(* headerLen + bytesPerTarget * n + 2 bytes are collected (9 and 7 in      *)
(* 16-bit mode, 6 and 14 in 32-bit mode), and a call that ends with fewer  *)
(* bytes ends with ERR_FRAME_INCOMPLETE.                                   *)
IsTargetListCall == op.name \in {"getTargetList16", "getTargetList32"}

HeaderOf == IF op.name = "getTargetList16" THEN 9 ELSE 6

PerTargetOf == IF op.name = "getTargetList16" THEN 7 ELSE 14

CountSeen == At(buf, HeaderOf - 1)

C7_ClippingFrameAccepted ==
    (/\ IsTargetListCall
     /\ Len(buf) = HeaderOf + 2
     /\ CountSeen = 255
     /\ At(buf, HeaderOf + 1) = 22) =>
        (pc = "done" /\ result = "ERR_OK" /\ tlist.clippingFlag = 1)

(* C8: on a frame whose last byte is 0x16, decodeTargetFrame reads only    *)
(* indices below nrOfElements.                                             *)
C8_DecoderReadsInsideFrame ==
    (pc = "done" /\ op.name = "decodeTargetFrame" /\ At(buf, Len(buf) - 1) = 22) =>
        rdMax < Len(buf)

(* C9: a target list response of which a non-empty suffix is withheld      *)
(* until after the deadline, at least one byte having been received, ends  *)
(* with ERR_FRAME_INCOMPLETE and a target list without decoded target.     *)
C9_TruncatedIsIncomplete ==
    (pc = "done" /\ IsTargetListCall /\ answer = "truncated" /\ wire # <<>>) =>
        /\ result = "ERR_FRAME_INCOMPLETE"
        /\ tlist.nrOfTargets = 0
        /\ \A i \in 1..35 : tlist.targets[i] = ZeroTarget

(* C10: a target list response collected at its expected length whose      *)
(* checksum byte differs from the sum of DEST..last payload byte mod 256   *)
(* ends with ERR_INVALID_CHECKSUM, never with ERR_OK.                      *)
ChecksumFrom == IF At(buf, 0) = 104 THEN 4 ELSE 1

C10_ListChecksumVerified ==
    (/\ pc = "done" /\ IsTargetListCall
     /\ Len(buf) >= HeaderOf + 2
     /\ Len(buf) = HeaderOf + PerTargetOf * CountSeen + 2
     /\ At(buf, Len(buf) - 2) # SumRange(buf, ChecksumFrom, Len(buf) - 3) % 256) =>
        result = "ERR_INVALID_CHECKSUM"

(* C11: getTargetList16/32 returns ERR_OK only if every fixed field of the *)
(* response matches: 0x68 at offsets 0 and 3, equal length bytes, the      *)
(* echoed device address at offset 5, function code 0xDA at offset 6 and   *)
(* 0x16 at the final offset.                                               *)
C11_ListFixedFieldsChecked ==
    (pc = "done" /\ IsTargetListCall /\ result = "ERR_OK") =>
        /\ At(buf, 0) = 104 /\ At(buf, 3) = 104
        /\ At(buf, 1) = At(buf, 2)
        /\ At(buf, 5) = op.dest
        /\ At(buf, 6) = 218
        /\ At(buf, Len(buf) - 1) = 22

(* C12: whenever getTargetList16 or getTargetList32 returns an error,      *)
(* every field of the caller's target list is zero, whatever it held       *)
(* before the call.                                                        *)
AllFieldsZero(l) ==
    /\ l.status = 0 /\ l.outputNumber = 0 /\ l.nrOfTargets = 0 /\ l.clippingFlag = 0
    /\ \A i \in 1..35 :
          /\ l.targets[i].signal = <<0, 1>> /\ l.targets[i].velocity = <<0, 1>>
          /\ l.targets[i].range = <<0, 1>> /\ l.targets[i].angle = <<0, 1>>

C12_ListZeroOnError ==
    (pc = "done" /\ IsTargetListCall /\ result # "ERR_OK") => AllFieldsZero(tlist)

C12_Witness ==
    /\ pc = "done" /\ op.name = "getTargetList16" /\ result = "ERR_FRAME_INCOMPLETE"
    /\ answer = "truncated" /\ Len(buf) > 9
    /\ AllFieldsZero(tlist)

(* C13: decodeTargetFrame on a frame whose count byte is 0xFF and whose    *)
(* last byte is 0x16, applied to a zero-filled list, returns ERR_OK with   *)
(* clippingFlag = 1 and count 0, leaves every target slot zero and reads   *)
(* nothing past the end byte, in 16-bit and in 32-bit mode.                *)
OffsetOf(frame) == IF At(frame, 0) = 104 THEN 6 ELSE 3

ClippingFrameGiven ==
    /\ pc = "decode"
    /\ At(buf, 0) \in {104, 162}
    /\ OffsetOf(buf) + 2 < Len(buf) - 1
    /\ At(buf, OffsetOf(buf) + 2) = 255
    /\ At(buf, Len(buf) - 1) = 22
    /\ AllFieldsZero(tlist)

C13_ClippingDecoded ==
    [][ClippingFrameGiven =>
          /\ result' = "ERR_OK"
          /\ tlist'.clippingFlag = 1 /\ tlist'.nrOfTargets = 0
          /\ \A i \in 1..35 : tlist'.targets[i] = tlist.targets[i]
          /\ rdMax' = Len(buf) - 1]_vars

C13_Witness ==
    /\ pc = "done" /\ op.name = "decodeTargetFrame" /\ op.bitrate = 32
    /\ buf = <<104, 5, 5, 104, 1, 128, 218, 1, 255, 91, 22>>
    /\ result = "ERR_OK" /\ tlist.clippingFlag = 1 /\ tlist.nrOfTargets = 0
    /\ rdMax = 10

(* C14: on a frame ending in 0x16, decodeTargetFrame sets status FULL      *)
(* exactly when the count is 0x23, status OK for every count in 0..0x22,   *)
(* and for every count in 0x24..0xFE returns ERR_COMMAND_FAILURE without   *)
(* modifying the target list.                                              *)
CountGiven == At(buf, OffsetOf(buf) + 2)

CountedFrameGiven ==
    /\ pc = "decode"
    /\ At(buf, 0) \in {104, 162}
    /\ OffsetOf(buf) + 2 < Len(buf) - 1
    /\ At(buf, Len(buf) - 1) = 22

C14_StatusByCount ==
    [][CountedFrameGiven =>
          /\ CountGiven <= 34 => (result' = "ERR_OK" /\ tlist'.status = 0)
          /\ CountGiven = 35 => (result' = "ERR_OK" /\ tlist'.status = 1)
          /\ (CountGiven >= 36 /\ CountGiven <= 254) =>
                (result' = "ERR_COMMAND_FAILURE" /\ tlist' = tlist)
          /\ tlist'.status = 1 => CountGiven = 35]_vars

C14_Witness ==
    /\ pc = "done" /\ op.name = "decodeTargetFrame" /\ op.bitrate = 16
    /\ Len(buf) = 256 /\ At(buf, 0) = 104 /\ At(buf, 8) = 35
    /\ result = "ERR_OK" /\ tlist.status = 1 /\ tlist.nrOfTargets = 35

(* C15: the decoder takes the function code at offset 6 when frame[0] is   *)
(* 0x68 and at offset 3 when it is 0xA2, and for every other first byte    *)
(* fails with ERR_COMMAND_NO_VALID_FRAME_FOUND instead of decoding.        *)
C15_OtherFirstByteRejected ==
    (/\ pc = "done" /\ op.name = "decodeTargetFrame"
     /\ Len(buf) > 6 /\ At(buf, 0) \notin {104, 162}) =>
        result = "ERR_COMMAND_NO_VALID_FRAME_FOUND"

(* C16: in 32-bit mode, for a frame starting with 0x68 with count          *)
(* n <= 0x23, target i is decoded from the 14 bytes at offset 9 + 14*i:    *)
(* signal from the big-endian two's-complement 16-bit value of bytes 0..1  *)
(* (scale 0.01), velocity, range and angle from the big-endian             *)
(* two's-complement 32-bit values of bytes 2..5, 6..9 and 10..13 (scales   *)
(* 0.001, 1e-6, 0.01); count and outputNumber come from offsets 8 and 7,   *)
(* and every slot with index >= n is zero.                                 *)
TwosComplement16(f, k) ==
    IF At(f, k) >= 128
    THEN 0 - ((255 - At(f, k)) * 256 + (255 - At(f, k + 1))) - 1
    ELSE At(f, k) * 256 + At(f, k + 1)

TwosComplement32(f, k) ==
    IF At(f, k) >= 128
    THEN 0 - ((255 - At(f, k)) * 16777216 + (255 - At(f, k + 1)) * 65536
              + (255 - At(f, k + 2)) * 256 + (255 - At(f, k + 3))) - 1
    ELSE At(f, k) * 16777216 + At(f, k + 1) * 65536 + At(f, k + 2) * 256 + At(f, k + 3)

Quantity(raw, den) == IF raw = 0 THEN <<0, 1>> ELSE <<raw, den>>

LongFrameDecoded(bitrate, bpt) ==
    /\ pc = "done" /\ op.name = "decodeTargetFrame" /\ op.bitrate = bitrate
    /\ Len(buf) >= 11 /\ At(buf, 0) = 104 /\ At(buf, Len(buf) - 1) = 22
    /\ At(buf, 8) <= 35
    /\ Len(buf) >= 9 + bpt * At(buf, 8) + 2

C16_Decode32 ==
    LongFrameDecoded(32, 14) =>
        /\ result = "ERR_OK"
        /\ tlist.nrOfTargets = At(buf, 8) /\ tlist.outputNumber = At(buf, 7)
        /\ \A i \in 0..34 :
              tlist.targets[i + 1] =
                 IF i < At(buf, 8)
                 THEN [signal   |-> Quantity(TwosComplement16(buf, 9 + 14 * i), 100),
                       velocity |-> Quantity(TwosComplement32(buf, 9 + 14 * i + 2), 1000),
                       range    |-> Quantity(TwosComplement32(buf, 9 + 14 * i + 6), 1000000),
                       angle    |-> Quantity(TwosComplement32(buf, 9 + 14 * i + 10), 100)]
                 ELSE [signal |-> <<0, 1>>, velocity |-> <<0, 1>>,
                       range |-> <<0, 1>>, angle |-> <<0, 1>>]

C16_Witness ==
    /\ LongFrameDecoded(32, 14) /\ At(buf, 8) = 35 /\ result = "ERR_OK"
    /\ \E i \in 1..35 : tlist.targets[i].signal[1] < 0
    /\ \E i \in 1..35 : tlist.targets[i].velocity[1] < 0
    /\ \E i \in 1..35 : tlist.targets[i].range[1] > 0

(* C17: in 16-bit mode, for a frame starting with 0x68 with count          *)
(* n <= 0x23, target i is decoded from the 7 bytes at offset 9 + 7*i:      *)
(* signal is the unsigned byte 0 unscaled; velocity, range and angle come  *)
(* from the big-endian two's-complement 16-bit values of bytes 1..2, 3..4  *)
(* and 5..6, each scaled by 0.01; every slot with index >= n is zero.      *)
C17_Decode16 ==
    LongFrameDecoded(16, 7) =>
        /\ result = "ERR_OK"
        /\ \A i \in 0..34 :
              tlist.targets[i + 1] =
                 IF i < At(buf, 8)
                 THEN [signal   |-> Quantity(At(buf, 9 + 7 * i), 1),
                       velocity |-> Quantity(TwosComplement16(buf, 9 + 7 * i + 1), 100),
                       range    |-> Quantity(TwosComplement16(buf, 9 + 7 * i + 3), 100),
                       angle    |-> Quantity(TwosComplement16(buf, 9 + 7 * i + 5), 100)]
                 ELSE [signal |-> <<0, 1>>, velocity |-> <<0, 1>>,
                       range |-> <<0, 1>>, angle |-> <<0, 1>>]

C17_Witness ==
    /\ LongFrameDecoded(16, 7) /\ At(buf, 8) = 2 /\ result = "ERR_OK"
    /\ tlist.targets[1] = [signal |-> <<12, 1>>, velocity |-> <<4374, 100>>,
                           range |-> <<6944, 100>>, angle |-> <<9514, 100>>]
    /\ tlist.targets[3].signal = <<0, 1>>

(* C18: while an acknowledge (9 bytes) or a read response (11 bytes) is    *)
(* collected, a 0x16 byte received before that length does not end         *)
(* collection: a call that ends holding fewer bytes than the minimum       *)
(* length has run into its deadline.                                       *)
FixedMinimumCall ==
    /\ op.name \in OpNames /\ OpInfo(op.name).fam # "tl"
    /\ tx # <<>>

C18_EarlyTerminatorIgnored ==
    (/\ pc = "done" /\ FixedMinimumCall
     /\ Len(buf) > 0 /\ Len(buf) < OpInfo(op.name).need) =>
        ~InTime(now, startTime, op.timeout)

(* C19: a fixed-length response is checked for length, then for its fixed  *)
(* bytes, then for its checksum: a full-length response with both a wrong  *)
(* fixed byte and a wrong checksum yields ERR_COMMAND_RX_FRAME_DAMAGED,     *)
(* and a response shorter than the required length yields                  *)
(* ERR_COMMAND_RX_FRAME_LENGTH whatever its bytes are.                     *)
CallArgs == [dest |-> op.dest, out |-> op.out, val |-> op.val, timeout |-> op.timeout]

C19_CheckOrder ==
    (pc = "done" /\ FixedMinimumCall) =>
        /\ (/\ Len(buf) = OpInfo(op.name).need
            /\ ~FixedOk(OpInfo(op.name), CallArgs, buf)
            /\ ~ChecksumOk(OpInfo(op.name), buf)) =>
               result = "ERR_COMMAND_RX_FRAME_DAMAGED"
        /\ (Len(buf) > 0 /\ Len(buf) < OpInfo(op.name).need) =>
               result = "ERR_COMMAND_RX_FRAME_LENGTH"

(* C20: in every acknowledge or read operation, iSYS_setDeviceAddress and  *)
(* iSYS_getDeviceAddress included, a full-length response whose fixed      *)
(* bytes all match but whose checksum byte is wrong yields                 *)
(* ERR_INVALID_CHECKSUM and no other error code.                           *)
C20_WrongChecksumReported ==
    (/\ pc = "done" /\ FixedMinimumCall
     /\ Len(buf) = OpInfo(op.name).need
     /\ FixedOk(OpInfo(op.name), CallArgs, buf)
     /\ ~ChecksumOk(OpInfo(op.name), buf)) =>
        result = "ERR_INVALID_CHECKSUM"

(* C21: every operation taking an output channel, an output-filter type,   *)
(* a signal-filter or a direction value rejects a value outside its        *)
(* enumeration (channel 1..3, filter type 0..4, signal filter 0..2,        *)
(* direction 1..3) with a parameter error before any byte is written.      *)
TakesChannel == op.name \in OpNames /\ OpInfo(op.name).fam \in {"tl", "set", "get"}

EnumOf(name) ==
    CASE name = "iSYS_setOutputDirection" -> 1..3
      [] name = "iSYS_setOutputFilterType" -> 0..4
      [] name = "iSYS_setOutputSignalFilter" -> 0..2
      [] OTHER -> 0..65535

ParameterErrors == {"ERR_OUTPUT_OUT_OF_RANGE", "ERR_PARAMETER_OUT_OF_RANGE"}

C21_EnumerationsChecked ==
    (/\ pc # "idle" /\ TakesChannel
     /\ (op.out \notin 1..3 \/ op.val \notin EnumOf(op.name))) =>
        /\ tx = <<>>
        /\ result \in ParameterErrors

(* C22: within one call the command frame is written at most once, the     *)
(* write precedes every transport read of the call, and the call ends with *)
(* exactly one result; after a failed, malformed or timed-out exchange     *)
(* nothing is written again until the caller makes another call.           *)
CallEntry == pc \in {"idle", "done"}

C22_SingleExchange ==
    [][/\ tx' # tx => (CallEntry /\ tx' = Append(tx, Command(op'.name, CallArgs')))
       /\ Len(rx') < Len(rx) =>
             /\ Collecting /\ tx' = tx /\ tx # <<>>
             /\ tx[Len(tx)] = Command(op.name, CallArgs)
       /\ (pc' = "done" /\ ~CallEntry) => (result = "none" /\ result' # "none")
       /\ (result' # result /\ ~CallEntry) => pc' = "done"
       /\ (pc = "done" /\ pc' # "done") => (tx' # tx /\ result' = "none")]_vars

C22_Witness ==
    /\ pc = "done" /\ Len(tx) = 2
    /\ tx[1] = Command("iSYS_setOutputRangeMin", BaseArgs)
    /\ tx[2] = Command("iSYS_startAcquisition", SeqArgs)
    /\ op.name = "iSYS_startAcquisition" /\ result = "ERR_COMMAND_NO_DATA_RECEIVED"
    /\ buf = <<>>

(* C23: if the millisecond clock keeps advancing, every operation called   *)
(* with timeout > 0 eventually returns, whatever bytes the transport       *)
(* delivers or withholds.                                                  *)
C23_EventuallyReturns ==
    (pc # "idle" /\ op.timeout > 0) ~> (pc = "done")

C23_Witness ==
    /\ pc = "done" /\ op.name = "iSYS_startAcquisition" /\ op.timeout = MaxTimeout
    /\ answer = "none" /\ buf = <<>>
    /\ ~InTime(now, startTime, op.timeout)
    /\ result = "ERR_COMMAND_NO_DATA_RECEIVED"

(* C24: when the deadline of an acknowledge or read operation elapses,     *)
(* ERR_COMMAND_NO_DATA_RECEIVED is returned if and only if no byte was     *)
(* received during the call; if at least one byte was received and the     *)
(* frame is incomplete, an incomplete/length error is returned instead.    *)
DeadlineElapsed ==
    /\ pc = "done" /\ FixedMinimumCall
    /\ op.timeout > 0
    /\ ~InTime(now, startTime, op.timeout)

IncompleteErrors == {"ERR_COMMAND_RX_FRAME_LENGTH", "ERR_FRAME_INCOMPLETE"}

C24_NoDataOnlyWhenEmpty ==
    DeadlineElapsed =>
        /\ (result = "ERR_COMMAND_NO_DATA_RECEIVED") <=> (buf = <<>>)
        /\ (buf # <<>> /\ Len(buf) < OpInfo(op.name).need) => result \in IncompleteErrors

(* C25: in every fixed-length collection loop the byte limit is checked    *)
(* before a byte is stored: no received byte is written at an index at or  *)
(* beyond the capacity of the response buffer (9 for acknowledges, 11 for  *)
(* read responses, 32 for address responses).                              *)
CapacityOf(name) == IF OpInfo(name).coll = "addr" THEN 32 ELSE OpInfo(name).need

C25_StoresInsideBuffer ==
    (op.name \in OpNames /\ OpInfo(op.name).fam # "tl") =>
        Len(buf) <= CapacityOf(op.name)

(* C26: with the debug output disabled (or no debug stream set), no        *)
(* operation emits any debug or log output.                                *)
C26_SilentWhenDisabled ==
    ~debugEnabled => (serialOut = 0 /\ debugOut = 0)

(* C27: each parameter operation emits the codes of the protocol table:    *)
(* setters use FUNC 0xD5 with PDU [output, subfunction, valueHi, valueLo], *)
(* getters FUNC 0xD4 with PDU [output, subfunction], the subfunction being *)
(* 0x08 range-min, 0x09 range-max, 0x0A signal-min, 0x0B signal-max, 0x0C  *)
(* velocity-min, 0x0D velocity-max, 0x0E direction, 0x15 output-filter     *)
(* type, 0x16 output-signal filter, the same for getter and setter.        *)
ParameterOf(name) ==
    CASE name \in {"iSYS_setOutputRangeMin", "iSYS_getOutputRangeMin"} -> 8
      [] name \in {"iSYS_setOutputRangeMax", "iSYS_getOutputRangeMax"} -> 9
      [] name \in {"iSYS_setOutputSignalMin", "iSYS_getOutputSignalMin"} -> 10
      [] name \in {"iSYS_setOutputSignalMax", "iSYS_getOutputSignalMax"} -> 11
      [] name \in {"iSYS_setOutputVelocityMin", "iSYS_getOutputVelocityMin"} -> 12
      [] name \in {"iSYS_setOutputVelocityMax", "iSYS_getOutputVelocityMax"} -> 13
      [] name \in {"iSYS_setOutputDirection", "iSYS_getOutputDirection"} -> 14
      [] name \in {"iSYS_setOutputFilterType", "iSYS_getOutputFilterType"} -> 21
      [] name \in {"iSYS_setOutputSignalFilter", "iSYS_getOutputSignalFilter"} -> 22
      [] OTHER -> -1

Setters ==
    {"iSYS_setOutputRangeMin", "iSYS_setOutputRangeMax", "iSYS_setOutputSignalMin",
     "iSYS_setOutputSignalMax", "iSYS_setOutputVelocityMin", "iSYS_setOutputVelocityMax",
     "iSYS_setOutputDirection", "iSYS_setOutputFilterType", "iSYS_setOutputSignalFilter"}

C27_ProtocolTableCodes ==
    (pc # "idle" /\ tx # <<>> /\ ParameterOf(op.name) # -1) =>
        LET f == tx[1]
        IN  IF op.name \in Setters
            THEN /\ Len(f) = 13 /\ At(f, 1) = 7
                 /\ At(f, 6) = 213
                 /\ At(f, 7) = op.out /\ At(f, 8) = ParameterOf(op.name)
                 /\ At(f, 9) \in 0..255 /\ At(f, 10) \in 0..255
            ELSE /\ Len(f) = 11 /\ At(f, 1) = 5
                 /\ At(f, 6) = 212
                 /\ At(f, 7) = op.out /\ At(f, 8) = ParameterOf(op.name)

C27_Witness ==
    /\ pc = "collect" /\ op.name = "iSYS_getOutputSignalFilter"
    /\ tx = <<(<<104, 5, 5, 104, 128, 1, 212, 1, 22, 108, 22>>)>>

(* C28: if the device delivers a well-formed 11-byte read-parameter        *)
(* response before the deadline, the getter returns ERR_OK with the        *)
(* decoded value, for every parameter value, checksum and device address,  *)
(* including those where a payload, address or checksum byte equals 0x16.  *)
WellFormedReadDelivered ==
    /\ pc = "done" /\ op.name \in OpNames /\ OpInfo(op.name).fam = "get"
    /\ answer = "full"
    /\ InTime(now, startTime, op.timeout)

C28_WellFormedReadAccepted ==
    WellFormedReadDelivered =>
        /\ result = "ERR_OK"
        /\ outv = GetterValue(OpInfo(op.name), buf)

(* C29: for every response receiveTargetListResponse hands to the decoder, *)
(* the count byte used to compute the expected length is the byte the      *)
(* decoder uses as target count (function-code offset + 2), in 16-bit and  *)
(* in 32-bit mode, and every byte the decoder reads lies inside the        *)
(* collected buffer.                                                       *)
C29_SameCountByte ==
    (pc = "done" /\ IsTargetListCall /\ rdMax # -1) =>
        /\ HeaderOf - 1 = OffsetOf(buf) + 2
        /\ rdMax < Len(buf)

(* C30: no operation flushes or drains the receive side of the transport:  *)
(* bytes unread when one call ends stay queued, and the collector of the   *)
(* next call takes them, oldest first, before any byte of its own          *)
(* response.                                                               *)
C30_NoFlush ==
    [][/\ CallEntry => rx' = rx
       /\ Len(rx') > Len(rx) => SubSeq(rx', 1, Len(rx)) = rx
       /\ Len(rx') < Len(rx) =>
             /\ Collecting /\ rx' = Tail(rx)
             /\ \/ buf' = Append(buf, Head(rx))
                \/ buf' = buf /\ result' = "ERR_COMMAND_MAX_DATA_OVERFLOW"
       /\ Len(rx') = Len(rx) => rx' = rx]_vars

C30_Witness ==
    /\ Len(tx) = 2 /\ tx[1] = Command("iSYS_setOutputRangeMin", BaseArgs)
    /\ op.name = "getTargetList16" /\ pc = "hdr"
    /\ answer = "none"
    /\ buf = <<213, 86, 22>> /\ rx = <<>>

(* C31: whenever the last byte of the frame handed to decodeTargetFrame,   *)
(* frame[nrOfElements - 1], is not 0x16, the decoder returns               *)
(* ERR_COMMAND_NO_VALID_FRAME_FOUND and leaves the target list as it was,  *)
(* whatever the count byte and in both modes.                              *)
LastByteGiven == At(buf, Len(buf) - 1)

C31_NoEndByteRejected ==
    [][(pc = "decode" /\ LastByteGiven # 22) =>
          /\ result' = "ERR_COMMAND_NO_VALID_FRAME_FOUND"
          /\ tlist' = tlist]_vars

C31_Witness ==
    /\ pc = "done" /\ op.name = "decodeTargetFrame" /\ op.bitrate = 16
    /\ buf = <<104, 5, 5, 104, 1, 128, 218, 1, 36, 128, 104>>
    /\ result = "ERR_COMMAND_NO_VALID_FRAME_FOUND"
    /\ tlist = PopulatedList

(* C32: one target-list call uses one resolution mode throughout.          *)
(* getTargetList16 writes a request whose PDU is [output, 0x10], collects  *)
(* a 9-byte header and 7 bytes per target, and decodes 16-bit targets;     *)
(* getTargetList32 writes [output, 0x20], collects 14 bytes per target     *)
(* and decodes 32-bit targets.                                             *)
FlagOf == IF op.name = "getTargetList16" THEN 16 ELSE 32

RequestSent == tx[Len(tx)]

SlotOf(i) == OffsetOf(buf) + 3 + PerTargetOf * i

TargetInMode(i) ==
    IF op.name = "getTargetList16"
    THEN [signal   |-> Quantity(At(buf, SlotOf(i)), 1),
          velocity |-> Quantity(TwosComplement16(buf, SlotOf(i) + 1), 100),
          range    |-> Quantity(TwosComplement16(buf, SlotOf(i) + 3), 100),
          angle    |-> Quantity(TwosComplement16(buf, SlotOf(i) + 5), 100)]
    ELSE [signal   |-> Quantity(TwosComplement16(buf, SlotOf(i)), 100),
          velocity |-> Quantity(TwosComplement32(buf, SlotOf(i) + 2), 1000),
          range    |-> Quantity(TwosComplement32(buf, SlotOf(i) + 6), 1000000),
          angle    |-> Quantity(TwosComplement32(buf, SlotOf(i) + 10), 100)]

C32_OneModePerCall ==
    (IsTargetListCall /\ pc # "idle") =>
        /\ tx # <<>>
        /\ Len(RequestSent) = 11
        /\ At(RequestSent, 1) = 5 /\ At(RequestSent, 2) = 5
        /\ At(RequestSent, 6) = 218
        /\ At(RequestSent, 7) = op.out % 256
        /\ At(RequestSent, 8) = FlagOf
        /\ pc = "body" => Len(buf) >= HeaderOf
        /\ rdMax # -1 => Len(buf) = HeaderOf + PerTargetOf * CountSeen + 2
        /\ (pc = "done" /\ result = "ERR_OK" /\ rdMax # -1 /\ rdMax < Len(buf)) =>
              \A i \in 0..(tlist.nrOfTargets - 1) : tlist.targets[i + 1] = TargetInMode(i)

C32_Witness ==
    /\ pc = "done" /\ op.name = "getTargetList32" /\ result = "ERR_OK"
    /\ At(RequestSent, 7) = 1 /\ At(RequestSent, 8) = 32
    /\ Len(buf) = 6 + 14 * 2 + 2 /\ At(buf, 5) = 2
    /\ rdMax = Len(buf) - 1
    /\ tlist.nrOfTargets = 2 /\ tlist.targets[2] = TargetInMode(1)
    /\ tlist.targets[2].range[2] = 1000000

(* C33: a getter that returns anything other than ERR_OK leaves the        *)
(* caller's output variable as it was before the call; in particular       *)
(* iSYS_getOutputDirection does so for a response whose fixed bytes are    *)
(* right and whose checksum is wrong.                                      *)
GetterNames == {n \in OpNames : OpInfo(n).fam \in {"get", "aget"}}

C33_OutputKeptOnError ==
    (pc = "done" /\ op.name \in GetterNames /\ result # "ERR_OK") => outv = <<-1, 1>>

(* C34: iSYS_setOutputRangeMin accepts every integer range 0..150 and      *)
(* iSYS_setOutputRangeMax every integer range 1..150; each returns         *)
(* ERR_PARAMETER_OUT_OF_RANGE exactly for a range outside those limits     *)
(* (the output number being valid), and then has written nothing.          *)
RangeSetters == {"iSYS_setOutputRangeMin", "iSYS_setOutputRangeMax"}

LowestRange == IF op.name = "iSYS_setOutputRangeMin" THEN 0 ELSE 1

C34_RangeLimits ==
    (pc = "done" /\ op.name \in RangeSetters /\ op.out \in 1..3) =>
        /\ (result = "ERR_PARAMETER_OUT_OF_RANGE") <=> (op.val < LowestRange \/ op.val > 150)
        /\ result = "ERR_PARAMETER_OUT_OF_RANGE" => tx = <<>>

(* C35: a range setter called with an accepted integer range r writes      *)
(* r * 10 big-endian into the two value bytes of its frame, and the range  *)
(* getter, answered in time by the read response that carries those two    *)
(* bytes, returns ERR_OK and stores exactly r metres.                      *)
RawSent == At(tx[1], 9) * 256 + At(tx[1], 10)

ReadBackDone ==
    /\ pc = "done" /\ Len(tx) = 2 /\ answer = "stored"
    /\ op.name \in {"iSYS_getOutputRangeMin", "iSYS_getOutputRangeMax"}
    /\ now = startTime

C35_RangeRoundTrip ==
    /\ (pc # "idle" /\ tx # <<>>) => (Len(tx[1]) = 13 /\ RawSent = op.val * 10)
    /\ ReadBackDone => (result = "ERR_OK" /\ outv[1] = op.val * outv[2])

(* C36: iSYS_setOutputVelocityMin called with v in 0..249 km/h and         *)
(* iSYS_setOutputVelocityMax called with v in 1..250 km/h (valid output,   *)
(* timeout > 0) write a frame whose two value bytes hold, high byte        *)
(* first, the integer nearest to 25 v / 9, which is below 2^16.            *)
VelocitySetters == {"iSYS_setOutputVelocityMin", "iSYS_setOutputVelocityMax"}

VelocityAccepted ==
    /\ op.name \in VelocitySetters /\ op.out \in 1..3 /\ op.timeout > 0
    /\ IF op.name = "iSYS_setOutputVelocityMin" THEN op.val \in 0..249 ELSE op.val \in 1..250

VelocitySent == At(tx[1], 9) * 256 + At(tx[1], 10)

C36_VelocityScaled ==
    (pc # "idle" /\ VelocityAccepted) =>
        /\ Len(tx) = 1 /\ Len(tx[1]) = 13
        /\ 18 * VelocitySent - 50 * op.val < 9
        /\ 50 * op.val - 18 * VelocitySent < 9

C36_Witness ==
    /\ pc = "done" /\ op.name = "iSYS_setOutputVelocityMax" /\ op.val = 250
    /\ result = "ERR_OK"
    /\ At(tx[1], 9) = 2 /\ At(tx[1], 10) = 182

(* C37: iSYS_getDeviceAddress writes a request whose destination byte      *)
(* (frame byte 4) is its destAddress argument, and returns ERR_OK only     *)
(* for a response with byte 4 = 0x01 whose byte 5 is the device address    *)
(* it reports.                                                             *)
C37_AddressedExchange ==
    (op.name = "iSYS_getDeviceAddress" /\ pc # "idle") =>
        /\ Len(tx) = 1 /\ At(tx[1], 4) = op.dest
        /\ (pc = "done" /\ result = "ERR_OK") =>
              (At(buf, 4) = 1 /\ outv = <<At(buf, 5), 1>>)

(* C38: iSYS_setDeviceAddress writes a request whose destination byte is   *)
(* destAddress and whose last value byte (frame byte 10) is the new        *)
(* address; it returns ERR_OK only for a 9-byte acknowledge whose byte 5   *)
(* is the new address, so an acknowledge that carries the old destAddress, *)
(* different from the new address, is rejected.                            *)
C38_NewAddressAcknowledged ==
    (op.name = "iSYS_setDeviceAddress" /\ pc # "idle") =>
        /\ Len(tx) = 1 /\ Len(tx[1]) = 13
        /\ At(tx[1], 4) = op.dest /\ At(tx[1], 10) = op.val
        /\ (pc = "done" /\ result = "ERR_OK") => (Len(buf) = 9 /\ At(buf, 5) = op.val)
        /\ (pc = "done" /\ Len(buf) >= 9 /\ At(buf, 5) = op.dest /\ op.dest # op.val) =>
              result # "ERR_OK"

C38_Witness ==
    /\ pc = "done" /\ op.name = "iSYS_setDeviceAddress" /\ op.dest = 128 /\ op.val = 2
    /\ buf = <<104, 3, 3, 104, 1, 128, 211, 84, 22>>
    /\ now = startTime
    /\ result = "ERR_COMMAND_RX_FRAME_DAMAGED"

(* C39: a call whose transport write reported fewer bytes than the length  *)
(* of its command frame reads no response byte and does not return ERR_OK. *)
ShortWritten == tx # <<>> /\ Len(tx[Len(tx)]) < At(tx[Len(tx)], 1) + 6

C39_ShortWriteFails ==
    ShortWritten => (buf = <<>> /\ (pc = "done" => result # "ERR_OK"))

(* C40: the deadline of a collection is counted modulo 2^32. A collection  *)
(* started at 2^32 - 1 or 2^32 - 2 ms reads bytes only while fewer than    *)
(* `timeout` milliseconds have elapsed since its start, is never still     *)
(* collecting after more than `timeout`, and is ended by the deadline      *)
(* only when exactly `timeout` milliseconds have elapsed.                  *)
ElapsedMs ==
    IF now.hi = startTime.hi THEN now.lo - startTime.lo
    ELSE now.lo + (65536 - startTime.lo)

C40_DeadlineAcrossWrap ==
    [][/\ (Collecting /\ Len(rx') < Len(rx)) => ElapsedMs < op.timeout
       /\ (Collecting /\ now' # now) => ElapsedMs < op.timeout
       /\ (Collecting /\ pc' = "done" /\ rx' = rx) => ElapsedMs = op.timeout
       /\ Collecting' => ElapsedMs' <= op'.timeout]_vars

C40_Witness ==
    /\ pc = "done" /\ op.name = "getTargetList16" /\ op.timeout = MaxTimeout
    /\ startTime = [hi |-> 65535, lo |-> 65535]
    /\ now = [hi |-> 0, lo |-> op.timeout - 1]
    /\ Len(buf) > 9 /\ result = "ERR_FRAME_INCOMPLETE"

=============================================================================
